---- MODULE Spec2Model ----
(***************************************************************************)
(* Model of actual-mcp-server.                                             *)
(*                                                                         *)
(*  - ActualConnection (src/src/actual-connection.ts): the process-wide    *)
(*    session {isInitialized, currentBudgetId}.  Every async method is cut *)
(*    at its awaits: the code between two awaits is one atomic step (the   *)
(*    JavaScript event loop runs it to completion), and callers interleave *)
(*    at the awaits only.                                                  *)
(*  - MongoDbContextService (src/unnamed/part_001): the annotation store,  *)
(*    a MongoDB collection with a unique index created in the background.  *)
(***************************************************************************)
EXTENDS Integers, Sequences, FiniteSets, TLC

(***************************************************************************)
(* Bounds of the model.                                                    *)
(***************************************************************************)
NumProcs == 2
MaxCalls == 3

Procs == 1..NumProcs

\* clients of the annotation store, the calls they make in all, and the
\* readings its clock takes
NumClients    == 2
MaxStoreCalls == 3
MaxClock      == 1
\* documents the collection holds when a search is made, and the searches
MaxStored   == 2
MaxSearches == 1
\* the last day a balance history may name, the day daylight saving time
\* starts, and the transactions the ledger returns
MaxDay == 2
DstDay == 1
MaxTx  == 2
\* the nesting of the trees convertAmounts is given
MaxDepth == 2
\* the entries of one set_category_contexts request
MaxEntries == 2
\* the months get_budget_months may be asked for: 2024-01 .. 2024-0<MaxMonth>
MaxMonth == 4
\* the comma-separated pieces of ALLOWED_EMAIL_ADDRESSES
MaxEmails == 2

Clients == 1..NumClients

(***************************************************************************)
(* JavaScript values.                                                      *)
(***************************************************************************)
Null      == "<null>"
Undefined == "<undefined>"
EmptyStr  == ""
Budgets   == {"b1", "b2"}

\* what a caller may pass as budgetId (tools pass args.budgetId or nothing)
BudgetArgs == Budgets \cup {Undefined, EmptyStr}
\* what process.env.ACTUAL_BUDGET_ID may hold
EnvValues == {Undefined, "b1"}

NoResult == [kind |-> "none", id |-> Null]

\* EntityType values, entity ids and context payloads (Record<string, any>)
\* used by the callers
EntityTypes == {"account", "category"}
EntityIds   == {"e1"}
Contexts    == {[tag |-> "x"], [note |-> "n"]}

\* the filter { entityType, entityId, budgetId }
Keys == [entityType : EntityTypes, entityId : EntityIds, budgetId : Budgets]

NoKey      == [entityType |-> Null, entityId |-> Null, budgetId |-> Null]
NoRequest  == [kind |-> "none", key |-> NoKey, context |-> Null, now |-> 0]
NoResponse == [kind |-> "none", doc |-> Null]

VARIABLES
  \* ---- ActualConnection fields
  isInitialized,     \* private isInitialized
  currentBudgetId,   \* private currentBudgetId
  \* ---- environment of the session
  envBudgetId,       \* process.env.ACTUAL_BUDGET_ID
  dataDirExists,     \* whether DATA_PATH exists on disk
  \* ---- callers
  pc,                \* where each caller is suspended
  op,                \* the method each caller invoked and its argument
  calls,             \* number of calls made so far, over all callers
  result,            \* how each caller's last call ended
  \* ---- observation of the ledger client (history, never read by the code)
  loads,             \* api.downloadBudget invocations made by the call
  initCalls,         \* api.init invocations not known to have failed, since the last shutdown
  shutdownCalls,     \* api.shutdown invocations
  okLoaded,          \* budget ids whose download has completed successfully
  lastOutcome,       \* per budget id, how its most recently completed download ended
  raced              \* two downloads of one target have been in flight together

sessionVars == <<isInitialized, currentBudgetId, envBudgetId, dataDirExists,
                 pc, op, calls, result, loads, initCalls,
                 shutdownCalls, okLoaded, lastOutcome, raced>>

VARIABLES
  \* ---- the entity_contexts collection
  docs,              \* its documents, in natural order
  uniqueIndex,       \* the unique index on (entityType, entityId, budgetId) exists
  indexPc,           \* where initializeIndexes is suspended
  \* ---- clients of MongoDbContextService
  spc,               \* where each client's request is
  req,               \* the request each client issued
  resp,              \* how each client's last request ended
  storeCalls,        \* number of requests issued so far, over all clients
  clock,             \* the latest reading of new Date()
  \* ---- observation of the collection (history, never read by the code)
  lastSet            \* per key, the data of the latest setContext applied since
                     \* the last clearContext applied: <<data>>, or <<>>

storeVars == <<docs, uniqueIndex, indexPc, spc, req, resp, storeCalls, clock,
               lastSet>>

VARIABLES
  \* ---- environment of get_account_balance_history
  timeZone,            \* the time zone of the process (TZ)
  \* ---- one invocation of execute
  hpc,                 \* where execute is suspended
  args,                \* args.accountId, args.startDate, args.endDate
  accounts,            \* what getAccounts() returned
  endDate,             \* const endDate
  currentDate,         \* const currentDate, advanced by setDate
  dayBeforeBalance,    \* let dayBeforeBalance
  groupedTransactions, \* the fetched transactions, looked up by date
  history,             \* const history
  error,               \* the error execute threw
  \* ---- observation of the ledger client (history, never read by the code)
  balanceReads,        \* the getAccountBalance calls answered: cutoff, balance
  transactionFetches   \* the getTransactions calls answered: their range

historyVars == <<timeZone, hpc, args, accounts, endDate, currentDate,
                 dayBeforeBalance, groupedTransactions, history, error,
                 balanceReads, transactionFetches>>

VARIABLES
  \* ---- the tool layer (src/src/tools, src/src/auth.ts): the state of each
  \* ---- of its parts is one record, or Unused in a run the part has no
  \* ---- share in
  convertCall,         \* one call of convertAmounts
  wrappedCall,         \* one call of a tool wrapped by withErrorHandling
  invocations,         \* concurrent invocations of a tool that reads the ledger
  contextCall,         \* one invocation of set_account_context or
                       \* set_category_contexts
  monthsCall,          \* one invocation of get_budget_months
  transactionsCall,    \* one invocation of get_transactions
  authCall             \* one call of authenticate

Unused == "unused"

\* ---- one call of convertAmounts
\* its argument
obj == convertCall.obj
\* what it returned
converted == convertCall.converted

convertVars == <<convertCall>>

\* ---- one call of a tool wrapped by withErrorHandling
\* where the wrapper's execute is
wpc == wrappedCall.wpc
\* the wrapped tool: its name
toolConfig == wrappedCall.toolConfig
\* args
wrappedArgs == wrappedCall.wrappedArgs
\* how toolConfig.execute(args) ended (observation)
settled == wrappedCall.settled
\* what the wrapper's execute returned
returned == wrappedCall.returned

wrapperVars == <<wrappedCall>>

\* ---- concurrent invocations of a tool that reads the ledger
\* where each invocation's execute is suspended
tpc == invocations.tpc
\* args.budgetId of each invocation
requested == invocations.requested
\* const loadedBudgetId of each invocation
loadedBudgetId == invocations.loadedBudgetId
\* the budget the ledger client has loaded
ledgerBudget == invocations.ledgerBudget
\* observation, never read by the code: per invocation, the budget that
\* served each read
ledgerReads == invocations.ledgerReads
\* observation, never read by the code: per invocation, the budget id its
\* getContext named
annotated == invocations.annotated

invocationVars == <<invocations>>

\* ---- one invocation of set_account_context or set_category_contexts
\* where execute is suspended
xpc == contextCall.xpc
\* the tool invoked
xtool == contextCall.xtool
\* args.contexts, or <<args>> for set_account_context
contexts == contextCall.contexts
\* const loadedBudgetId
writeBudgetId == contextCall.writeBudgetId
\* <<what getAccounts() / getCategories() returned>>
existingEntities == contextCall.existingEntities
\* the setContext calls awaited and not yet applied
pendingWrites == contextCall.pendingWrites
\* the annotation store: per key, <<context>> or <<>>
annotations == contextCall.annotations
\* the error execute threw
xerror == contextCall.xerror
\* observation, never read by the code: the annotation store when execute
\* was called
annotationsBefore == contextCall.annotationsBefore

contextToolVars == <<contextCall>>

\* ---- one invocation of get_budget_months
\* the time zone of the process (TZ)
monthZone == monthsCall.monthZone
\* where execute is suspended
mpc == monthsCall.mpc
\* args.startMonth, args.endMonth
monthArgs == monthsCall.monthArgs
\* const months
months == monthsCall.months
\* the position in months the second loop is at
nextMonth == monthsCall.nextMonth
\* const budgetData: its entries in insertion order
budgetData == monthsCall.budgetData
\* observation, never read by the code: the getBudgetMonth calls settled:
\* month, ok
monthReads == monthsCall.monthReads

monthsVars == <<monthsCall>>

\* ---- one invocation of get_transactions
\* where execute is suspended
gpc == transactionsCall.gpc
\* args.accountId, args.limit
txArgs == transactionsCall.txArgs
\* const targetAccounts
targetAccounts == transactionsCall.targetAccounts
\* the getTransactions calls not yet settled
pendingFetches == transactionsCall.pendingFetches
\* what Promise.all resolves with, place by place
fetched == transactionsCall.fetched
\* const requestedTransactions
requestedTransactions == transactionsCall.requestedTransactions
\* const relevantAccounts
relevantAccounts == transactionsCall.relevantAccounts
\* observation, never read by the code: the places of the fetches, in the
\* order they settled
fetchOrder == transactionsCall.fetchOrder

transactionsVars == <<transactionsCall>>

\* ---- one call of authenticate
\* process.env.ALLOWED_EMAIL_ADDRESSES
envAllowed == authCall.envAllowed
\* where authenticate is suspended
apc == authCall.apc
\* request.headers["authorization"]
authHeader == authCall.authHeader
\* what authenticate returned or threw
outcome == authCall.outcome

authVars == <<authCall>>

\* the state of the tool layer
toolVars == <<convertVars, wrapperVars, invocationVars, contextToolVars,
              monthsVars, transactionsVars, authVars>>

vars == <<sessionVars, storeVars, historyVars, toolVars>>

(***************************************************************************)
(* Pure pieces of ensureBudgetLoaded.                                      *)
(***************************************************************************)
\* JavaScript truthiness of an optional string
Falsy(x) == x \in {Undefined, Null, EmptyStr}

\* variant: a built-in fallback budget behind the configured default
ResolveTargetBuiltinDefault(arg, env) ==
  IF ~Falsy(arg) THEN arg ELSE IF ~Falsy(env) THEN env ELSE "b1"

\* budgetId || process.env.ACTUAL_BUDGET_ID
ResolveTarget(arg, env) == IF ~Falsy(arg) THEN arg ELSE env

\* variant: the cache is never consulted
NeedsLoadAlways(target, cached) == TRUE

\* variant: the comparison inverted
NeedsLoadInverted(target, cached) == target = cached

\* targetBudgetId !== this.currentBudgetId
NeedsLoad(target, cached) == target # cached

\* variant: the cache is written before the download is awaited, so a
\* failed download leaves the target in it
CacheAfterDownloadEager(target, cached, ok) == target

\* variant: a failed download clears the cache
CacheAfterDownloadClearing(target, cached, ok) == IF ok THEN target ELSE Null

\* variant: a successful download does not reach the cache
CacheAfterDownloadStale(target, cached, ok) == cached

\* the cache after `await api.downloadBudget(target)` settled
CacheAfterDownload(target, cached, ok) == IF ok THEN target ELSE cached

\* isInitialized after `await api.init(...)` settled
InitializedAfterInit(was, ok) == IF ok THEN TRUE ELSE was

\* variant: shutdown forgets the loaded budget
SessionAfterShutdownKeepsBudget(init, cached, ok) ==
  IF ok THEN <<FALSE, cached>> ELSE <<init, cached>>

\* the session {isInitialized, currentBudgetId} after `await api.shutdown()` settled
SessionAfterShutdown(init, cached, ok) ==
  IF ok THEN <<FALSE, Null>> ELSE <<init, cached>>

\* const targetBudgetId = budgetId || process.env.ACTUAL_BUDGET_ID, for caller p
Target(p) == ResolveTarget(op[p].arg, envBudgetId)

Downloading(p) == pc[p] = "ebl_download"
InFlight == {p \in Procs : Downloading(p)}

(***************************************************************************)
(* Initial state: a freshly constructed ActualConnection.                  *)
(***************************************************************************)
SessionInit ==
  /\ isInitialized = FALSE
  /\ currentBudgetId = Null
  /\ envBudgetId \in EnvValues
  /\ dataDirExists \in BOOLEAN
  /\ pc = [p \in Procs |-> "idle"]
  /\ op = [p \in Procs |-> [kind |-> "none", arg |-> Undefined]]
  /\ calls = 0
  /\ result = [p \in Procs |-> NoResult]
  /\ loads = [p \in Procs |-> 0]
  /\ initCalls = 0
  /\ shutdownCalls = 0
  /\ okLoaded = {}
  /\ lastOutcome = [b \in Budgets |-> "none"]
  /\ raced = FALSE


(***************************************************************************)
(* A caller starts a call: the per-call observations are reset.            *)
(***************************************************************************)
BeginCall(p, kind, arg) ==
  /\ pc[p] = "idle"
  /\ calls < MaxCalls
  /\ calls' = calls + 1
  /\ op' = [op EXCEPT ![p] = [kind |-> kind, arg |-> arg]]
  /\ loads' = [loads EXCEPT ![p] = 0]

\* a call ends (returns or throws) with result r
Finish(p, r) ==
  /\ pc' = [pc EXCEPT ![p] = "idle"]
  /\ result' = [result EXCEPT ![p] = r]

\* a call settles without having awaited anything: its promise is settled
\* when the call returns it, and the caller's `await` resumes in a later step
Settle(p, r) ==
  /\ pc' = [pc EXCEPT ![p] = "settled"]
  /\ result' = [result EXCEPT ![p] = r]

\* the synchronous head of ensureConnection(): the isInitialized test and,
\* when it is false, the start of access(DATA_PATH)
EnterConnection(p, kind) ==
  IF isInitialized
    THEN IF kind = "ensureConnection"
           THEN Settle(p, [kind |-> "ok", id |-> Undefined])
           ELSE /\ pc' = [pc EXCEPT ![p] = "ebl_resume"]
                /\ result' = [result EXCEPT ![p] = NoResult]
    ELSE /\ pc' = [pc EXCEPT ![p] = "ec_access"]
         /\ result' = [result EXCEPT ![p] = NoResult]

\* where a caller continues once the ensureConnection() that initialised
\* the session has returned
AfterConnection(p, kind) ==
  IF kind = "ensureConnection"
    THEN Finish(p, [kind |-> "ok", id |-> Undefined])
    ELSE /\ pc' = [pc EXCEPT ![p] = "ebl_resume"]
         /\ UNCHANGED result

\* the caller of a call that settled synchronously resumes
Return(p) ==
  /\ pc[p] = "settled"
  /\ pc' = [pc EXCEPT ![p] = "idle"]
  /\ UNCHANGED <<isInitialized, currentBudgetId, envBudgetId, dataDirExists,
                 op, calls, result, loads, initCalls, shutdownCalls,
                 okLoaded, lastOutcome, raced>>
  /\ UNCHANGED <<storeVars, historyVars, toolVars>>

(***************************************************************************)
(* ensureConnection()                                                      *)
(***************************************************************************)
CallEnsureConnection(p) ==
  /\ BeginCall(p, "ensureConnection", Undefined)
  /\ EnterConnection(p, "ensureConnection")
  /\ UNCHANGED <<isInitialized, currentBudgetId, envBudgetId, dataDirExists,
                 initCalls, shutdownCalls, okLoaded, lastOutcome, raced>>
  /\ UNCHANGED <<storeVars, historyVars, toolVars>>

\* api.init(...) is invoked
StartInit(p) ==
  /\ pc' = [pc EXCEPT ![p] = "ec_init"]
  /\ initCalls' = initCalls + 1

\* access(DATA_PATH) settled: the directory exists and api.init is called,
\* or it does not and mkdir is called
AccessDone(p) ==
  /\ pc[p] = "ec_access"
  /\ IF dataDirExists
       THEN StartInit(p)
       ELSE /\ pc' = [pc EXCEPT ![p] = "ec_mkdir"]
            /\ UNCHANGED initCalls
  /\ UNCHANGED <<isInitialized, currentBudgetId, envBudgetId, dataDirExists,
                 op, calls, result, loads, shutdownCalls,
                 okLoaded, lastOutcome, raced>>
  /\ UNCHANGED <<storeVars, historyVars, toolVars>>

\* mkdir(DATA_PATH, {recursive: true}) settled
MkdirDone(p, ok) ==
  /\ pc[p] = "ec_mkdir"
  /\ IF ok
       THEN /\ dataDirExists' = TRUE
            /\ StartInit(p)
            /\ UNCHANGED result
       ELSE /\ Finish(p, [kind |-> "FsError", id |-> Undefined])
            /\ UNCHANGED <<dataDirExists, initCalls>>
  /\ UNCHANGED <<isInitialized, currentBudgetId, envBudgetId,
                 op, calls, loads, shutdownCalls,
                 okLoaded, lastOutcome, raced>>
  /\ UNCHANGED <<storeVars, historyVars, toolVars>>

\* api.init(...) settled
InitDone(p, ok) ==
  /\ pc[p] = "ec_init"
  /\ isInitialized' = InitializedAfterInit(isInitialized, ok)
  /\ IF ok
       THEN /\ AfterConnection(p, op[p].kind)
            /\ UNCHANGED initCalls
       ELSE /\ Finish(p, [kind |-> "InitError", id |-> Undefined])
            /\ initCalls' = IF initCalls > 0 THEN initCalls - 1 ELSE 0
  /\ UNCHANGED <<currentBudgetId, envBudgetId, dataDirExists,
                 op, calls, loads, shutdownCalls,
                 okLoaded, lastOutcome, raced>>
  /\ UNCHANGED <<storeVars, historyVars, toolVars>>

(***************************************************************************)
(* ensureBudgetLoaded(budgetId?)                                           *)
(***************************************************************************)
CallEnsureBudgetLoaded(p, arg) ==
  /\ BeginCall(p, "ensureBudgetLoaded", arg)
  /\ EnterConnection(p, "ensureBudgetLoaded")
  /\ UNCHANGED <<isInitialized, currentBudgetId, envBudgetId, dataDirExists,
                 initCalls, shutdownCalls, okLoaded, lastOutcome, raced>>
  /\ UNCHANGED <<storeVars, historyVars, toolVars>>

\* the code from `await this.ensureConnection()` resuming up to the call of
\* api.downloadBudget, or to the return / throw
BudgetCheck(p) ==
  /\ pc[p] = "ebl_resume"
  /\ LET target == Target(p) IN
       IF Falsy(target)
         THEN /\ Finish(p, [kind |-> "ConfigError", id |-> Undefined])
              /\ UNCHANGED <<loads, raced>>
         ELSE IF NeedsLoad(target, currentBudgetId)
                THEN /\ pc' = [pc EXCEPT ![p] = "ebl_download"]
                     /\ loads' = [loads EXCEPT ![p] = @ + 1]
                     /\ raced' = (raced \/ \E q \in InFlight : Target(q) = target)
                     /\ UNCHANGED result
                ELSE /\ Finish(p, [kind |-> "ok", id |-> currentBudgetId])
                     /\ UNCHANGED <<loads, raced>>
  /\ UNCHANGED <<isInitialized, currentBudgetId, envBudgetId, dataDirExists,
                 op, calls, initCalls, shutdownCalls, okLoaded, lastOutcome>>
  /\ UNCHANGED <<storeVars, historyVars, toolVars>>

\* api.downloadBudget(target) settled
DownloadDone(p, ok) ==
  /\ pc[p] = "ebl_download"
  /\ currentBudgetId' = CacheAfterDownload(Target(p), currentBudgetId, ok)
  /\ IF ok
       THEN /\ Finish(p, [kind |-> "ok", id |-> currentBudgetId'])
            /\ okLoaded' = okLoaded \cup {Target(p)}
            /\ lastOutcome' = [lastOutcome EXCEPT ![Target(p)] = "ok"]
       ELSE /\ Finish(p, [kind |-> "LoadError", id |-> Target(p)])
            /\ lastOutcome' = [lastOutcome EXCEPT ![Target(p)] = "failed"]
            /\ UNCHANGED okLoaded
  /\ UNCHANGED <<isInitialized, envBudgetId, dataDirExists,
                 op, calls, loads, initCalls, shutdownCalls, raced>>
  /\ UNCHANGED <<storeVars, historyVars, toolVars>>

(***************************************************************************)
(* shutdown()                                                              *)
(***************************************************************************)
CallShutdown(p) ==
  /\ BeginCall(p, "shutdown", Undefined)
  /\ IF isInitialized
       THEN /\ pc' = [pc EXCEPT ![p] = "sd_wait"]
            /\ shutdownCalls' = shutdownCalls + 1
            /\ result' = [result EXCEPT ![p] = NoResult]
       ELSE /\ Settle(p, [kind |-> "noop", id |-> Undefined])
            /\ UNCHANGED shutdownCalls
  /\ UNCHANGED <<isInitialized, currentBudgetId, envBudgetId, dataDirExists,
                 initCalls, okLoaded, lastOutcome, raced>>
  /\ UNCHANGED <<storeVars, historyVars, toolVars>>

\* api.shutdown() settled
ShutdownDone(p, ok) ==
  /\ pc[p] = "sd_wait"
  /\ isInitialized' = SessionAfterShutdown(isInitialized, currentBudgetId, ok)[1]
  /\ currentBudgetId' = SessionAfterShutdown(isInitialized, currentBudgetId, ok)[2]
  /\ IF ok
       THEN /\ Finish(p, [kind |-> "ok", id |-> Undefined])
            /\ initCalls' = 0
       ELSE /\ Finish(p, [kind |-> "ShutdownError", id |-> Undefined])
            /\ UNCHANGED initCalls
  /\ UNCHANGED <<envBudgetId, dataDirExists, op, calls, loads,
                 shutdownCalls, okLoaded, lastOutcome, raced>>
  /\ UNCHANGED <<storeVars, historyVars, toolVars>>

SessionNext ==
  \E p \in Procs :
    \/ CallEnsureConnection(p)
    \/ Return(p)
    \/ AccessDone(p)
    \/ \E ok \in BOOLEAN : MkdirDone(p, ok)
    \/ \E ok \in BOOLEAN : InitDone(p, ok)
    \/ \E arg \in BudgetArgs : CallEnsureBudgetLoaded(p, arg)
    \/ BudgetCheck(p)
    \/ \E ok \in BOOLEAN : DownloadDone(p, ok)
    \/ CallShutdown(p)
    \/ \E ok \in BOOLEAN : ShutdownDone(p, ok)

(***************************************************************************)
(* get_account_balance_history (src/src/tools/accounts.ts).                *)
(*                                                                         *)
(* A Date is an instant, counted in hours from 00:00 UTC of day 0, and a   *)
(* "YYYY-MM-DD" string is the number of its day.  getDate and setDate work *)
(* in the local time of the process, toISOString and the parsing of a      *)
(* date-only string in UTC.  Amounts are integers of minor units; the      *)
(* decimal integerToAmount gives is kept as its whole part and hundredths. *)
(***************************************************************************)
TimeZones == {"UTC", "America/New_York"}

\* hours local time is ahead of UTC at instant t; daylight saving time starts
\* at 02:00 local time (07:00 UTC) of DstDay
UtcOffset(zone, t) ==
  IF zone = "UTC" THEN 0 ELSE IF t < 24 * DstDay + 7 THEN -5 ELSE -4

LocalTime(zone, t) == t + UtcOffset(zone, t)

\* the instant of a local time; a local time skipped by the start of
\* daylight saving time is read with the offset before it
FromLocalTime(zone, local) ==
  IF zone = "UTC" THEN local
  ELSE IF local + 5 < 24 * DstDay + 7 THEN local + 5
  ELSE IF local + 4 >= 24 * DstDay + 7 THEN local + 4
  ELSE local + 5

\* new Date("YYYY-MM-DD"): midnight UTC of that day
ParseDate(day) == 24 * day

\* date.setDate(date.getDate() + n): the local calendar date moves by n days
\* and the local time of day stays
SetDate(zone, t, n) == FromLocalTime(zone, LocalTime(zone, t) + 24 * n)

\* date.toISOString().split("T")[0]: the UTC calendar date
ToISODate(t) == t \div 24

\* api.utils.integerToAmount: minor units to a decimal of major units
IntegerToAmount(amount) ==
  [whole |-> amount \div 100, hundredths |-> amount % 100]

\* what the ledger may answer
AccountIds       == {"a1", "zz"}
AccountListings  == {{}, {"a1"}}
Balances         == {80, 100}
TxAmounts        == {-70, 50}
Transactions     == [date : 0..MaxDay, amount : TxAmounts]
TransactionLists == UNION {[1..n -> Transactions] : n \in 0..MaxTx}

NoArgs == [accountId |-> Null, startDate |-> 0, endDate |-> 0]

\* variant: the first account of the listing is taken whatever its id
FindAccountAny(listing, accountId) ==
  IF listing # {} THEN CHOOSE acc \in listing : TRUE ELSE Undefined

\* (await getAccounts()).find((acc) => acc.id === args.accountId)
FindAccount(listing, accountId) ==
  IF accountId \in listing THEN accountId ELSE Undefined

\* groupedTransactions[currentDateStr]
DayTransactions(grouped, dateStr) ==
  LET OnDay(t) == t.date = dateStr IN SelectSeq(grouped, OnDay)

RECURSIVE PositiveDayAmountsAll(_)
\* variant: every amount is added, debits too
PositiveDayAmountsAll(dayTransactions) ==
  IF dayTransactions = <<>> THEN 0
  ELSE PositiveDayAmountsAll(Tail(dayTransactions)) + Head(dayTransactions).amount

\* variant: credits are netted against the day's debits
PositiveDayAmountsNet(dayTransactions) ==
  IF PositiveDayAmountsAll(dayTransactions) > 0
    THEN PositiveDayAmountsAll(dayTransactions) ELSE 0

RECURSIVE PositiveDayAmounts(_)
\* reduce((acc, t) => (!!t.amount && t.amount > 0 ? acc + t.amount : acc), 0) || 0
PositiveDayAmounts(dayTransactions) ==
  IF dayTransactions = <<>> THEN 0
  ELSE PositiveDayAmounts(Tail(dayTransactions))
         + (IF Head(dayTransactions).amount # 0 /\ Head(dayTransactions).amount > 0
              THEN Head(dayTransactions).amount ELSE 0)

\* variant: the peak is taken from the day's own closing balance
HistoryPointFromClose(dateStr, currentDayBalance, before, positiveDayAmounts) ==
  [date |-> dateStr,
   endOfDayBalance |-> IntegerToAmount(currentDayBalance),
   theoreticalPeakIntradayBalance |->
     IntegerToAmount(currentDayBalance + positiveDayAmounts)]

\* the object pushed on history
HistoryPoint(dateStr, currentDayBalance, before, positiveDayAmounts) ==
  [date |-> dateStr,
   endOfDayBalance |-> IntegerToAmount(currentDayBalance),
   theoreticalPeakIntradayBalance |->
     IntegerToAmount(before + positiveDayAmounts)]

HistoryInit ==
  /\ timeZone \in TimeZones
  /\ hpc = "idle"
  /\ args = NoArgs
  /\ accounts = {}
  /\ endDate = 0
  /\ currentDate = 0
  /\ dayBeforeBalance = 0
  /\ groupedTransactions = <<>>
  /\ history = <<>>
  /\ error = Null
  /\ balanceReads = <<>>
  /\ transactionFetches = <<>>

\* no balance history is asked for
HistoryIdle == HistoryInit /\ timeZone = "UTC"

\* execute(args) is called: ensureBudgetLoaded() is awaited
CallExecute(accountId, startDay, endDay) ==
  /\ hpc = "idle"
  /\ args = NoArgs
  /\ args' = [accountId |-> accountId, startDate |-> startDay,
              endDate |-> endDay]
  /\ hpc' = "ensureBudgetLoaded"
  /\ UNCHANGED <<timeZone, accounts, endDate, currentDate, dayBeforeBalance,
                 groupedTransactions, history, error, balanceReads,
                 transactionFetches>>
  /\ UNCHANGED <<sessionVars, storeVars, toolVars>>

\* ensureBudgetLoaded() settles; its rejection is execute's; getAccounts()
\* is awaited next
EnsureBudgetLoadedDone(ok) ==
  /\ hpc = "ensureBudgetLoaded"
  /\ IF ok
       THEN hpc' = "getAccounts" /\ UNCHANGED error
       ELSE hpc' = "failed" /\ error' = "BudgetNotLoaded"
  /\ UNCHANGED <<timeZone, args, accounts, endDate, currentDate,
                 dayBeforeBalance, groupedTransactions, history, balanceReads,
                 transactionFetches>>
  /\ UNCHANGED <<sessionVars, storeVars, toolVars>>

\* getAccounts() answers: the account is looked up; when it is there the
\* dates are built and the balance of the day before is asked for
GetAccountsDone(listing) ==
  /\ hpc = "getAccounts"
  /\ accounts' = listing
  /\ IF FindAccount(listing, args.accountId) = Undefined
       THEN /\ hpc' = "failed"
            /\ error' = "AccountNotFound"
            /\ UNCHANGED <<endDate, currentDate>>
       ELSE /\ hpc' = "seedBalance"
            /\ endDate' = ParseDate(args.endDate)
            /\ currentDate' = ParseDate(args.startDate)
            /\ UNCHANGED error
  /\ UNCHANGED <<timeZone, args, dayBeforeBalance, groupedTransactions,
                 history, balanceReads, transactionFetches>>
  /\ UNCHANGED <<sessionVars, storeVars, toolVars>>

\* getAccountBalance(account.id, dayBefore) answers; getTransactions is
\* asked for the whole range
SeedBalanceDone(balance) ==
  /\ hpc = "seedBalance"
  /\ dayBeforeBalance' = balance
  /\ balanceReads' = Append(balanceReads,
                            [cutoff |-> SetDate(timeZone, currentDate, -1),
                             balance |-> balance])
  /\ hpc' = "getTransactions"
  /\ UNCHANGED <<timeZone, args, accounts, endDate, currentDate,
                 groupedTransactions, history, error, transactionFetches>>
  /\ UNCHANGED <<sessionVars, storeVars, toolVars>>

\* while (currentDate < endDate): the day's balance is asked for, or the loop
\* is left and the account's context is asked for
LoopTest(date) == IF date < endDate THEN "dayBalance" ELSE "getContext"

\* getTransactions(account.id, currentDate, endDate) answers and the
\* transactions are grouped by date
GetTransactionsDone(transactions) ==
  /\ hpc = "getTransactions"
  /\ groupedTransactions' = transactions
  /\ transactionFetches' = Append(transactionFetches,
                                  [startDate |-> currentDate,
                                   endDate |-> endDate])
  /\ hpc' = LoopTest(currentDate)
  /\ UNCHANGED <<timeZone, args, accounts, endDate, currentDate,
                 dayBeforeBalance, history, error, balanceReads>>
  /\ UNCHANGED <<sessionVars, storeVars, toolVars>>

\* getAccountBalance(account.id, currentDate) answers: the day's point is
\* pushed, the balance carried over and the date advanced
DayBalanceDone(currentDayBalance) ==
  /\ hpc = "dayBalance"
  /\ LET currentDateStr     == ToISODate(currentDate)
         positiveDayAmounts ==
           PositiveDayAmounts(DayTransactions(groupedTransactions,
                                              currentDateStr))
     IN  history' = Append(history,
                           HistoryPoint(currentDateStr, currentDayBalance,
                                        dayBeforeBalance, positiveDayAmounts))
  /\ balanceReads' = Append(balanceReads, [cutoff |-> currentDate,
                                           balance |-> currentDayBalance])
  /\ dayBeforeBalance' = currentDayBalance
  /\ currentDate' = SetDate(timeZone, currentDate, 1)
  /\ hpc' = LoopTest(currentDate')
  /\ UNCHANGED <<timeZone, args, accounts, endDate, groupedTransactions,
                 error, transactionFetches>>
  /\ UNCHANGED <<sessionVars, storeVars, toolVars>>

\* contextService.getContext answers and execute returns the history
GetContextDone ==
  /\ hpc = "getContext"
  /\ hpc' = "done"
  /\ UNCHANGED <<timeZone, args, accounts, endDate, currentDate,
                 dayBeforeBalance, groupedTransactions, history, error,
                 balanceReads, transactionFetches>>
  /\ UNCHANGED <<sessionVars, storeVars, toolVars>>

HistoryNext ==
  \/ \E accountId \in AccountIds, startDay \in 0..MaxDay, endDay \in 0..MaxDay :
       CallExecute(accountId, startDay, endDay)
  \/ \E ok \in BOOLEAN : EnsureBudgetLoadedDone(ok)
  \/ \E listing \in AccountListings : GetAccountsDone(listing)
  \/ \E balance \in Balances : SeedBalanceDone(balance)
  \/ \E transactions \in TransactionLists : GetTransactionsDone(transactions)
  \/ \E balance \in Balances : DayBalanceDone(balance)
  \/ GetContextDone

(***************************************************************************)
(* MongoDbContextService: the entity_contexts collection.                  *)
(*                                                                         *)
(* An upsert is a query followed, when nothing matched, by an insert.  The *)
(* server serialises the two against other writers only through a unique   *)
(* index on the filter's fields: with the index the losing insert of a     *)
(* race meets a duplicate key, which the server either retries as an       *)
(* update or reports to the client; without it both inserts succeed.       *)
(***************************************************************************)
KeyOf(doc) == [entityType |-> doc.entityType, entityId |-> doc.entityId,
               budgetId |-> doc.budgetId]

\* positions of the documents matching { entityType, entityId, budgetId }
Matching(coll, key) == {i \in 1..Len(coll) : KeyOf(coll[i]) = key}

Min(S) == CHOOSE x \in S : \A y \in S : x <= y

\* $set: { context, updatedAt: now }
SetFields(doc, context, now) ==
  [doc EXCEPT !.context = context, !.updatedAt = now]

\* the document an upsert inserts: the filter's equality fields, $set and
\* $setOnInsert: { entityType, entityId, budgetId, createdAt: now }
InsertedDoc(key, context, now) ==
  [entityType |-> key.entityType, entityId |-> key.entityId,
   budgetId |-> key.budgetId, context |-> context,
   createdAt |-> now, updatedAt |-> now]

RemoveAt(coll, i) == SubSeq(coll, 1, i - 1) \o SubSeq(coll, i + 1, Len(coll))

\* two documents carry one (entityType, entityId, budgetId)
HasDuplicates(coll) ==
  \E i, j \in 1..Len(coll) : i # j /\ KeyOf(coll[i]) = KeyOf(coll[j])

StoreInit ==
  /\ docs = <<>>
  /\ uniqueIndex = FALSE
  /\ indexPc = "unique"
  /\ spc = [c \in Clients |-> "idle"]
  /\ req = [c \in Clients |-> NoRequest]
  /\ resp = [c \in Clients |-> NoResponse]
  /\ storeCalls = 0
  /\ clock = 0
  /\ lastSet = [key \in Keys |-> <<>>]

\* initializeIndexes(): the createIndex the constructor left in flight
\* settles.  The unique index cannot be built over duplicates; any failure
\* is caught and logged, and the remaining indexes are not created.
CreateIndexDone(ok) ==
  /\ indexPc \in {"unique", "budgetId", "entityType"}
  /\ IF ~ok \/ (indexPc = "unique" /\ HasDuplicates(docs))
       THEN /\ indexPc' = "failed"
            /\ UNCHANGED uniqueIndex
       ELSE /\ indexPc' = CASE indexPc = "unique" -> "budgetId"
                            [] indexPc = "budgetId" -> "entityType"
                            [] OTHER -> "done"
            /\ uniqueIndex' = (uniqueIndex \/ indexPc = "unique")
  /\ UNCHANGED <<docs, spc, req, resp, storeCalls, clock, lastSet>>
  /\ UNCHANGED <<sessionVars, historyVars, toolVars>>

BeginRequest(c, r) ==
  /\ spc[c] = "idle"
  /\ storeCalls < MaxStoreCalls
  /\ storeCalls' = storeCalls + 1
  /\ req' = [req EXCEPT ![c] = r]
  /\ resp' = [resp EXCEPT ![c] = NoResponse]

Respond(c, r) ==
  /\ spc' = [spc EXCEPT ![c] = "idle"]
  /\ resp' = [resp EXCEPT ![c] = r]

\* setContext: new Date() reads `now`, which is the previous reading or a
\* later one, and findOneAndUpdate is sent
CallSetContext(c, key, context, now) ==
  /\ now >= clock
  /\ clock' = now
  /\ BeginRequest(c, [kind |-> "setContext", key |-> key, context |-> context,
                      now |-> now])
  /\ spc' = [spc EXCEPT ![c] = "upsert_query"]
  /\ UNCHANGED <<docs, uniqueIndex, indexPc, lastSet>>
  /\ UNCHANGED <<sessionVars, historyVars, toolVars>>

\* findOneAndUpdate, the query: the first matching document is updated and
\* returned (returnDocument: 'after'); when none matches an insert follows
UpsertQuery(c) ==
  /\ spc[c] = "upsert_query"
  /\ LET m == Matching(docs, req[c].key) IN
       IF m # {}
         THEN /\ docs' = [docs EXCEPT ![Min(m)] =
                            SetFields(@, req[c].context, req[c].now)]
              /\ Respond(c, [kind |-> "doc", doc |-> docs'[Min(m)]])
              /\ lastSet' = [lastSet EXCEPT ![req[c].key] = <<req[c].context>>]
         ELSE /\ spc' = [spc EXCEPT ![c] = "upsert_insert"]
              /\ UNCHANGED <<docs, resp, lastSet>>
  /\ UNCHANGED <<uniqueIndex, indexPc, req, storeCalls, clock>>
  /\ UNCHANGED <<sessionVars, historyVars, toolVars>>

\* findOneAndUpdate, the insert of an upsert that matched nothing
UpsertInsert(c, retry) ==
  /\ spc[c] = "upsert_insert"
  /\ IF uniqueIndex /\ Matching(docs, req[c].key) # {}
       THEN /\ IF retry
                 THEN /\ spc' = [spc EXCEPT ![c] = "upsert_query"]
                      /\ UNCHANGED resp
                 ELSE Respond(c, [kind |-> "DuplicateKey", doc |-> Null])
            /\ UNCHANGED <<docs, lastSet>>
       ELSE /\ docs' = Append(docs, InsertedDoc(req[c].key, req[c].context, req[c].now))
            /\ Respond(c, [kind |-> "doc", doc |-> docs'[Len(docs')]])
            /\ lastSet' = [lastSet EXCEPT ![req[c].key] = <<req[c].context>>]
  /\ UNCHANGED <<uniqueIndex, indexPc, req, storeCalls, clock>>
  /\ UNCHANGED <<sessionVars, historyVars, toolVars>>

\* clearContext: deleteOne is sent
CallClearContext(c, key) ==
  /\ BeginRequest(c, [kind |-> "clearContext", key |-> key, context |-> Null,
                      now |-> 0])
  /\ spc' = [spc EXCEPT ![c] = "delete"]
  /\ UNCHANGED <<docs, uniqueIndex, indexPc, clock, lastSet>>
  /\ UNCHANGED <<sessionVars, historyVars, toolVars>>

\* deleteOne removes the first matching document; result.deletedCount > 0
DeleteOne(c) ==
  /\ spc[c] = "delete"
  /\ LET m == Matching(docs, req[c].key) IN
       IF m # {}
         THEN /\ docs' = RemoveAt(docs, Min(m))
              /\ Respond(c, [kind |-> "deleted", doc |-> TRUE])
         ELSE /\ UNCHANGED docs
              /\ Respond(c, [kind |-> "deleted", doc |-> FALSE])
  /\ lastSet' = [lastSet EXCEPT ![req[c].key] = <<>>]
  /\ UNCHANGED <<uniqueIndex, indexPc, req, storeCalls, clock>>
  /\ UNCHANGED <<sessionVars, historyVars, toolVars>>

\* getContext: findOne is sent
CallGetContext(c, key) ==
  /\ BeginRequest(c, [kind |-> "getContext", key |-> key, context |-> Null,
                      now |-> 0])
  /\ spc' = [spc EXCEPT ![c] = "find_one"]
  /\ UNCHANGED <<docs, uniqueIndex, indexPc, clock, lastSet>>
  /\ UNCHANGED <<sessionVars, historyVars, toolVars>>

\* findOne returns the first matching document, or null
FindOne(c) ==
  /\ spc[c] = "find_one"
  /\ LET m == Matching(docs, req[c].key) IN
       IF m # {}
         THEN Respond(c, [kind |-> "doc", doc |-> docs[Min(m)]])
         ELSE Respond(c, [kind |-> "null", doc |-> Null])
  /\ UNCHANGED <<docs, uniqueIndex, indexPc, req, storeCalls, clock, lastSet>>
  /\ UNCHANGED <<sessionVars, historyVars, toolVars>>

StoreNext ==
  \/ \E ok \in BOOLEAN : CreateIndexDone(ok)
  \/ \E c \in Clients :
       \/ \E key \in Keys, context \in Contexts, now \in 0..MaxClock :
            CallSetContext(c, key, context, now)
       \/ UpsertQuery(c)
       \/ \E retry \in BOOLEAN : UpsertInsert(c, retry)
       \/ \E key \in Keys : CallClearContext(c, key)
       \/ DeleteOne(c)
       \/ \E key \in Keys : CallGetContext(c, key)
       \/ FindOne(c)

(***************************************************************************)
(* searchContext.  A ContextQuery is a record of optional fields: the      *)
(* structured filters entityType, entityId, budgetId, and any further key, *)
(* which is compared with the field of that name inside `context`.  The    *)
(* collection a search runs over is whatever the database holds.           *)
(***************************************************************************)
ReservedFields  == {"entityType", "entityId", "budgetId"}
ExtraFields     == {"tag"}
SearchEntityIds == {"e1", "e2"}

\* keys of the stored records: one key and the keys that differ from it in
\* one field
SearchKeys ==
  {key \in [entityType : EntityTypes, entityId : SearchEntityIds,
            budgetId : Budgets] :
     Cardinality({f \in ReservedFields :
                    key[f] # [entityType |-> "account", entityId |-> "e1",
                              budgetId |-> "b1"][f]}) <= 1}

\* the queries callers make: every subset of the fields, a structured filter
\* being an id or the empty string
FullQueries ==
  [entityType : EntityTypes, entityId : SearchEntityIds \cup {EmptyStr},
   budgetId : Budgets \cup {EmptyStr}, tag : {"x", "y"}]

Queries ==
  {[f \in S |-> q[f]] : q \in FullQueries,
                        S \in SUBSET (ReservedFields \cup ExtraFields)}

\* variant: the budgetId filter is never applied
MongoQueryAnyBudget(query) ==
  LET filters == {f \in {"entityType", "entityId"} \cap DOMAIN query :
                    ~Falsy(query[f])}
      extras  == DOMAIN query \ ReservedFields
      paths   == {<<f>> : f \in filters} \cup {<<"context", f>> : f \in extras}
  IN  [path \in paths |-> query[path[Len(path)]]]

\* mongoQuery: a structured filter is copied when its value is truthy; every
\* other key k of the query becomes the path context.k
MongoQuery(query) ==
  LET filters == {f \in ReservedFields \cap DOMAIN query : ~Falsy(query[f])}
      extras  == DOMAIN query \ ReservedFields
      paths   == {<<f>> : f \in filters} \cup {<<"context", f>> : f \in extras}
  IN  [path \in paths |-> query[path[Len(path)]]]

\* variant: a document matches when it meets some condition of the query
MatchesSome(doc, mongoQuery) ==
  \E path \in DOMAIN mongoQuery :
    IF Len(path) = 1
      THEN doc[path[1]] = mongoQuery[path]
      ELSE /\ path[2] \in DOMAIN doc.context
           /\ doc.context[path[2]] = mongoQuery[path]

\* a document matches a query when every path of the query holds the
\* query's value in the document
Matches(doc, mongoQuery) ==
  \A path \in DOMAIN mongoQuery :
    IF Len(path) = 1
      THEN doc[path[1]] = mongoQuery[path]
      ELSE /\ path[2] \in DOMAIN doc.context
           /\ doc.context[path[2]] = mongoQuery[path]

\* collection.find(mongoQuery).toArray()
FindAll(coll, mongoQuery) ==
  LET Hit(doc) == Matches(doc, mongoQuery) IN SelectSeq(coll, Hit)

\* searchContext: mongoQuery is built and find is sent
CallSearchContext(c, query) ==
  /\ storeCalls < MaxSearches
  /\ BeginRequest(c, [kind |-> "searchContext", query |-> query])
  /\ spc' = [spc EXCEPT ![c] = "find"]
  /\ UNCHANGED <<docs, uniqueIndex, indexPc, clock, lastSet>>
  /\ UNCHANGED <<sessionVars, historyVars, toolVars>>

\* find(...).toArray() returns the matching documents in natural order
FindToArray(c) ==
  /\ spc[c] = "find"
  /\ Respond(c, [kind |-> "docs",
                 doc |-> FindAll(docs, MongoQuery(req[c].query))])
  /\ UNCHANGED <<docs, uniqueIndex, indexPc, req, storeCalls, clock, lastSet>>
  /\ UNCHANGED <<sessionVars, historyVars, toolVars>>

\* the collections a search may run over
StoredDocs ==
  {InsertedDoc(key, context, 0) : key \in SearchKeys, context \in Contexts}

StoredCollections == UNION {[1..n -> StoredDocs] : n \in 0..MaxStored}

SearchClient == Min(Clients)

SearchNext ==
  \/ \E query \in Queries : CallSearchContext(SearchClient, query)
  \/ FindToArray(SearchClient)

(***************************************************************************)
(* The tool layer: convertAmounts.                                         *)
(*                                                                         *)
(* A JavaScript value is a tree: null, undefined, a string, a number, an   *)
(* array of values or an object of named values.  A number is held as the  *)
(* fraction n / d, so that dividing it is visible.                         *)
(***************************************************************************)
NumberValue(n, d) == [type |-> "number", n |-> n, d |-> d]
StringValue(str) == [type |-> "string", str |-> str]
NullValue == [type |-> "null"]
UndefinedValue == [type |-> "undefined"]
ArrayValue(items) == [type |-> "array", items |-> items]
ObjectValue(entries) == [type |-> "object", entries |-> entries]

Primitives == {NumberValue(1250, 1), NumberValue(300, 1), StringValue("x"),
               NullValue, UndefinedValue}

ObjectKeys == {"amount", "balance", "budgeted", "spent", "items"}

\* the values one level above x: x in an array or under a key, alone or
\* beside a sibling
Around(x) ==
  {ArrayValue(<<x>>), ArrayValue(<<NumberValue(300, 1), x>>)}
    \cup {ObjectValue(key :> x) : key \in ObjectKeys}
    \cup {ObjectValue((key :> x) @@ ("name" :> StringValue("x"))) :
            key \in ObjectKeys}

RECURSIVE Trees(_)
Trees(depth) ==
  IF depth = 0 THEN Primitives
  ELSE Primitives \cup UNION {Around(x) : x \in Trees(depth - 1)}

\* value / divisor
Divide(value, divisor) ==
  IF value.n % divisor = 0
  THEN NumberValue(value.n \div divisor, value.d)
  ELSE NumberValue(value.n, value.d * divisor)

AmountKeyWithoutSpent(key) == key \in {"amount", "balance", "budgeted"}

\* key === "amount" || key === "balance" || key === "budgeted" ||
\* key === "spent"
AmountKey(key) == key \in {"amount", "balance", "budgeted", "spent"}

RECURSIVE ConvertAmounts(_)
ConvertAmounts(o) ==
  IF o.type \in {"null", "undefined"} THEN o
  ELSE IF o.type = "array"
  THEN ArrayValue([i \in DOMAIN o.items |-> ConvertAmounts(o.items[i])])
  ELSE IF o.type = "object"
  THEN ObjectValue([key \in DOMAIN o.entries |->
         LET value == o.entries[key]
         IN  IF AmountKey(key)
             THEN IF value.type = "number" THEN Divide(value, 100) ELSE value
             ELSE ConvertAmounts(value)])
  ELSE o

NotConverted == [type |-> "none"]

ConvertIdle == convertCall = Unused

ConvertInit ==
  convertCall \in [obj : Trees(MaxDepth), converted : {NotConverted}]

\* const converted = convertAmounts(obj)
CallConvertAmounts ==
  /\ converted = NotConverted
  /\ convertCall' = [convertCall EXCEPT !.converted = ConvertAmounts(obj)]
  /\ UNCHANGED <<sessionVars, storeVars, historyVars, wrapperVars, invocationVars,
               contextToolVars, monthsVars, transactionsVars,
               authVars>>

ConvertNext == CallConvertAmounts

(***************************************************************************)
(* The tool layer: withErrorHandling.                                      *)
(***************************************************************************)
ToolNames == {"get_accounts", "get_transactions", "set_account_context"}

ToolArgs ==
  {ObjectValue(<<>>),
   ObjectValue("budgetId" :> StringValue("b1")),
   ObjectValue("limit" :> NumberValue(300, 1)),
   ObjectValue(("budgetId" :> StringValue("b1"))
                 @@ ("items" :> ArrayValue(<<StringValue("x")>>)))}

\* what toolConfig.execute(args) resolves with
ToolResults ==
  {StringValue("x"),
   ObjectValue("content" :>
     ArrayValue(<<ObjectValue(("type" :> StringValue("text"))
                                @@ ("text" :> StringValue("x")))>>))}

\* what toolConfig.execute(args) throws or rejects with
ErrorValue(message) == [type |-> "Error", message |-> message]

Thrown == {ErrorValue("Account not found"), ErrorValue(""),
           StringValue("timeout"), UndefinedValue, ObjectValue(<<>>)}

\* String(error)
StringOf(value) ==
  IF value.type = "string" THEN value.str
  ELSE IF value.type = "undefined" THEN "undefined"
  ELSE IF value.type = "null" THEN "null"
  ELSE "[object Object]"

\* error instanceof Error ? error.message : String(error)
MessageOf(err) ==
  IF err.type = "Error" THEN err.message ELSE StringOf(err)

\* what JSON.parse reads from JSON.stringify(value): a property holding
\* undefined is left out, undefined in an array is written as null
RECURSIVE Stringify(_)
Stringify(value) ==
  IF value.type = "array"
  THEN ArrayValue([i \in DOMAIN value.items |->
         IF value.items[i].type = "undefined" THEN NullValue
         ELSE Stringify(value.items[i])])
  ELSE IF value.type = "object"
  THEN ObjectValue([key \in {k \in DOMAIN value.entries :
                               value.entries[k].type # "undefined"} |->
         Stringify(value.entries[key])])
  ELSE value

\* the object the catch block returns
ErrorPayload(name, err, now, toolArgs) ==
  ObjectValue("content" :> ArrayValue(<<
    ObjectValue(("type" :> StringValue("text")) @@
                ("text" :> Stringify(ObjectValue(
                   ("error" :> StringValue("Failed to execute " \o name)) @@
                   ("message" :> StringValue(MessageOf(err))) @@
                   ("timestamp" :> NumberValue(now, 1)) @@
                   ("args" :> toolArgs)))))>>))

CatchesErrorsOnly(err) == err.type = "Error"

\* catch (error): the clause is entered whatever was thrown
Catches(err) == TRUE

NotSettled == [kind |-> "pending"]

WrapperIdle == wrappedCall = Unused

WrapperInit ==
  wrappedCall = [wpc |-> "idle",
                 toolConfig |-> Null,
                 wrappedArgs |-> UndefinedValue,
                 settled |-> NotSettled,
                 returned |-> UndefinedValue]

\* execute: async (args) => { try { return await toolConfig.execute(args)
CallWrappedExecute(name, toolArgs) ==
  /\ wpc = "idle"
  /\ wrappedCall' = [wrappedCall EXCEPT !.wpc = "execute",
                                        !.toolConfig = name,
                                        !.wrappedArgs = toolArgs]
  /\ UNCHANGED <<sessionVars, storeVars, historyVars, convertVars, invocationVars,
               contextToolVars, monthsVars, transactionsVars,
               authVars>>

\* toolConfig.execute(args) resolved
ExecuteResolved(resolved) ==
  /\ wpc = "execute"
  /\ wrappedCall' =
       [wrappedCall EXCEPT !.wpc = "returned",
                           !.settled = [kind |-> "resolved", value |-> resolved],
                           !.returned = resolved]
  /\ UNCHANGED <<sessionVars, storeVars, historyVars, convertVars, invocationVars,
               contextToolVars, monthsVars, transactionsVars,
               authVars>>

\* toolConfig.execute(args) threw, or rejected
ExecuteThrew(err, now) ==
  /\ wpc = "execute"
  /\ wrappedCall' =
       IF Catches(err)
       THEN [wrappedCall EXCEPT
               !.wpc = "returned",
               !.settled = [kind |-> "threw", value |-> err],
               !.returned = ErrorPayload(toolConfig, err, now, wrappedArgs)]
       ELSE [wrappedCall EXCEPT
               !.wpc = "escaped",
               !.settled = [kind |-> "threw", value |-> err]]
  /\ UNCHANGED <<sessionVars, storeVars, historyVars, convertVars, invocationVars,
               contextToolVars, monthsVars, transactionsVars,
               authVars>>

WrapperNext ==
  \/ \E name \in ToolNames, toolArgs \in ToolArgs :
       CallWrappedExecute(name, toolArgs)
  \/ \E resolved \in ToolResults : ExecuteResolved(resolved)
  \/ \E err \in Thrown, now \in 0..MaxClock : ExecuteThrew(err, now)

(***************************************************************************)
(* The tool layer: concurrent invocations of a tool that loads a budget,   *)
(* reads the ledger and then reads the annotation of what it read          *)
(* (get_account_balance_history, get_transactions).  The connection is     *)
(* initialised; api.downloadBudget makes its target the budget the ledger  *)
(* client serves reads from.                                               *)
(***************************************************************************)
sessionRest == <<isInitialized, envBudgetId, dataDirExists, pc, op, calls,
                 result, loads, initCalls, shutdownCalls, okLoaded,
                 lastOutcome, raced>>

otherThanInvocations == <<sessionRest, storeVars, historyVars, convertVars,
                          wrapperVars, contextToolVars, monthsVars, transactionsVars,
               authVars>>

InvocationIdle == invocations = Unused

InvocationInit ==
  invocations = [tpc |-> [p \in Procs |-> "idle"],
                 requested |-> [p \in Procs |-> Undefined],
                 loadedBudgetId |-> [p \in Procs |-> Null],
                 ledgerBudget |-> Null,
                 ledgerReads |-> [p \in Procs |-> <<>>],
                 annotated |-> [p \in Procs |-> Null]]

\* execute(args): ensureBudgetLoaded(args.budgetId) is called and awaits
\* ensureConnection()
InvokeTool(p, budgetId) ==
  /\ tpc[p] = "idle"
  /\ invocations' = [invocations EXCEPT !.tpc[p] = "ensureConnection",
                                        !.requested[p] = budgetId]
  /\ UNCHANGED <<currentBudgetId, otherThanInvocations>>

\* ensureConnection() returned: the target is resolved and compared with
\* the cache; the call returns the cache, awaits the download, or throws
TargetCompared(p) ==
  /\ tpc[p] = "ensureConnection"
  /\ LET targetBudgetId == ResolveTarget(requested[p], envBudgetId)
     IN  invocations' =
           IF Falsy(targetBudgetId)
           THEN [invocations EXCEPT !.tpc[p] = "failed"]
           ELSE IF NeedsLoad(targetBudgetId, currentBudgetId)
           THEN [invocations EXCEPT !.tpc[p] = "downloadBudget"]
           ELSE [invocations EXCEPT !.tpc[p] = "getAccounts",
                                    !.loadedBudgetId[p] = currentBudgetId]
  /\ UNCHANGED <<currentBudgetId, otherThanInvocations>>

\* api.downloadBudget(targetBudgetId) settled
DownloadBudgetSettled(p, ok) ==
  /\ tpc[p] = "downloadBudget"
  /\ LET targetBudgetId == ResolveTarget(requested[p], envBudgetId)
         cache == CacheAfterDownload(targetBudgetId, currentBudgetId, ok)
     IN  /\ currentBudgetId' = cache
         /\ invocations' =
              IF ok
              THEN [invocations EXCEPT !.ledgerBudget = targetBudgetId,
                                       !.loadedBudgetId[p] = cache,
                                       !.tpc[p] = "getAccounts"]
              ELSE [invocations EXCEPT !.tpc[p] = "failed"]
  /\ UNCHANGED otherThanInvocations

\* a read of the ledger the invocation awaited was served
LedgerReadServed(p) ==
  /\ tpc[p] \in {"getAccounts", "getTransactions"}
  /\ invocations' =
       [invocations EXCEPT
          !.ledgerReads[p] = Append(@, ledgerBudget),
          !.tpc[p] = IF @ = "getAccounts" THEN "getTransactions"
                     ELSE "getContext"]
  /\ UNCHANGED <<currentBudgetId, otherThanInvocations>>

\* contextService.getContext("account", args.accountId, loadedBudgetId)
ContextRead(p) ==
  /\ tpc[p] = "getContext"
  /\ invocations' = [invocations EXCEPT !.annotated[p] = loadedBudgetId[p],
                                        !.tpc[p] = "done"]
  /\ UNCHANGED <<currentBudgetId, otherThanInvocations>>

InvocationNext ==
  \/ \E p \in Procs, budgetId \in Budgets : InvokeTool(p, budgetId)
  \/ \E p \in Procs : TargetCompared(p)
  \/ \E p \in Procs, ok \in BOOLEAN : DownloadBudgetSettled(p, ok)
  \/ \E p \in Procs : LedgerReadServed(p)
  \/ \E p \in Procs : ContextRead(p)

(***************************************************************************)
(* The tool layer: set_account_context and set_category_contexts.          *)
(*                                                                         *)
(* setContext(entityType, entityId, budgetId, context) leaves one record   *)
(* under its key holding the context it was given.                         *)
(***************************************************************************)
LedgerIds == {"e1", "e2", "zz"}

\* what getAccounts() / getCategories() may return
Listings == {{"e1", "e2"}, {"e1"}}

ContextEntry(id, context) == [id |-> id, context |-> context]

ContextEntries == {ContextEntry(id, context) :
                     id \in LedgerIds, context \in Contexts}

ContextTools == {"set_account_context", "set_category_contexts"}

AnnotationKeys ==
  [entityType : EntityTypes, entityId : LedgerIds, budgetId : Budgets]

\* the stores the tool may find: empty, or holding one earlier record
AnnotationStores ==
  {[key \in AnnotationKeys |-> <<>>]} \cup
  {[key \in AnnotationKeys |->
      IF key.entityId = "e1" /\ key.budgetId = "b1"
      THEN <<[tag |-> "old"]>> ELSE <<>>]}

EntityTypeOf(tool) ==
  IF tool = "set_account_context" THEN "account" ELSE "category"

\* the fourth argument of setContext: args.context for an account, the
\* whole entry c for a category
ContextArgument(tool, entry) ==
  IF tool = "set_account_context"
  THEN entry.context
  ELSE [categoryId |-> entry.id, context |-> entry.context]

NonExistentFirstOnly(entries, existing) ==
  {k \in 1..Len(entries) : k = 1 /\ entries[k].id \notin existing}

\* the entries whose id the ledger does not list: !account, or
\* nonExistentCategories
NonExistent(entries, existing) ==
  {k \in 1..Len(entries) : entries[k].id \notin existing}

ContextToolIdle == contextCall = Unused

ContextToolInit ==
  \E store \in AnnotationStores :
    contextCall = [xpc |-> "idle",
                   xtool |-> Null,
                   contexts |-> <<>>,
                   writeBudgetId |-> Null,
                   existingEntities |-> <<>>,
                   pendingWrites |-> {},
                   annotations |-> store,
                   xerror |-> Null,
                   annotationsBefore |-> store]

otherThanContextTool == <<sessionVars, storeVars, historyVars, convertVars,
                          wrapperVars, invocationVars, monthsVars,
                          transactionsVars, authVars>>

\* execute(args): ensureBudgetLoaded() is awaited
CallContextTool(tool, entries) ==
  /\ xpc = "idle"
  /\ tool = "set_account_context" => Len(entries) = 1
  /\ contextCall' = [contextCall EXCEPT !.xpc = "ensureBudgetLoaded",
                                        !.xtool = tool,
                                        !.contexts = entries]
  /\ UNCHANGED otherThanContextTool

\* ensureBudgetLoaded() settled; getAccounts() / getCategories() is awaited
ContextBudgetLoaded(ok, budgetId) ==
  /\ xpc = "ensureBudgetLoaded"
  /\ contextCall' =
       IF ok
       THEN [contextCall EXCEPT !.xpc = "getEntities",
                                !.writeBudgetId = budgetId]
       ELSE [contextCall EXCEPT !.xpc = "failed",
                                !.xerror = "BudgetNotLoaded"]
  /\ UNCHANGED otherThanContextTool

\* the listing arrived: the ids are validated, then every setContext is
\* called and awaited
EntitiesListed(existing) ==
  /\ xpc = "getEntities"
  /\ contextCall' =
       IF NonExistent(contexts, existing) # {}
       THEN [contextCall EXCEPT !.existingEntities = <<existing>>,
                                !.xpc = "failed",
                                !.xerror = "NotFound"]
       ELSE [contextCall EXCEPT !.existingEntities = <<existing>>,
                                !.xpc = "setContext",
                                !.pendingWrites = 1..Len(contexts)]
  /\ UNCHANGED otherThanContextTool

\* one of the awaited setContext calls was applied by the store
ContextWritten(k) ==
  /\ xpc = "setContext"
  /\ k \in pendingWrites
  /\ contextCall' =
       [contextCall EXCEPT
          !.annotations[[entityType |-> EntityTypeOf(xtool),
                         entityId |-> contexts[k].id,
                         budgetId |-> writeBudgetId]] =
            <<ContextArgument(xtool, contexts[k])>>,
          !.pendingWrites = pendingWrites \ {k}]
  /\ UNCHANGED otherThanContextTool

\* every setContext resolved: "Context stored successfully."
ContextsStored ==
  /\ xpc = "setContext"
  /\ pendingWrites = {}
  /\ contextCall' = [contextCall EXCEPT !.xpc = "done"]
  /\ UNCHANGED otherThanContextTool

ContextToolNext ==
  \/ \E tool \in ContextTools :
       \E entries \in UNION {[1..n -> ContextEntries] : n \in 0..MaxEntries} :
         CallContextTool(tool, entries)
  \/ \E ok \in BOOLEAN, budgetId \in Budgets : ContextBudgetLoaded(ok, budgetId)
  \/ \E existing \in Listings : EntitiesListed(existing)
  \/ \E k \in 1..MaxEntries : ContextWritten(k)
  \/ ContextsStored

(***************************************************************************)
(* The tool layer: get_budget_months.                                      *)
(*                                                                         *)
(* A Date is a number of hours since 2023-12-01T00:00Z; month m is the     *)
(* m-th month after 2023-12, so that 1 is 2024-01.  new Date(YYYY-MM-01)   *)
(* is midnight UTC, getMonth / setMonth work on the fields of local time,  *)
(* and toISOString on those of UTC.                                        *)
(***************************************************************************)
\* the days of 2023-12, 2024-01, ... 2024-09
CalendarDays == <<31, 31, 29, 31, 30, 31, 30, 31, 31, 30>>

DaysIn(m) == CalendarDays[m + 1]

RECURSIVE MonthStart(_)
MonthStart(m) == IF m = 0 THEN 0 ELSE MonthStart(m - 1) + 24 * DaysIn(m - 1)

\* the month whose days hold the hour t
MonthAt(t) ==
  CHOOSE m \in 0..(Len(CalendarDays) - 1) :
    MonthStart(m) <= t /\ t < MonthStart(m) + 24 * DaysIn(m)

\* zones without daylight saving time
MonthZones == {"UTC", "America/Bogota"}

ZoneOffset(zone) == IF zone = "UTC" THEN 0 ELSE -5

\* new Date(month + "-01")
ParseMonth(m) == MonthStart(m)

\* date.toISOString().slice(0, 7)
ToISOMonth(t) == MonthAt(t)

\* date.setMonth(date.getMonth() + 1): the next month of local time with
\* the day and the hour kept, days beyond its end running into the month
\* after
SetNextMonth(zone, t) ==
  LET local == t + ZoneOffset(zone)
      m == MonthAt(local)
  IN  MonthStart(m + 1) + (local - MonthStart(m)) - ZoneOffset(zone)

\* for (let date = new Date(start); date <= end; date.setMonth(...))
\*   months.push(date.toISOString().slice(0, 7))
RECURSIVE MonthList(_, _, _)
MonthList(zone, date, end) ==
  IF date <= end
  THEN <<ToISOMonth(date)>> \o MonthList(zone, SetNextMonth(zone, date), end)
  ELSE <<>>

\* what mapResponseBudget makes of the month the ledger returned
BudgetOf(m) == [month |-> m]

\* budgetData[month] = value: a new key is added last, a present key keeps
\* its place
Assign(data, month, value) ==
  IF \E i \in 1..Len(data) : data[i].month = month
  THEN [i \in 1..Len(data) |->
          IF data[i].month = month THEN [month |-> month, value |-> value]
          ELSE data[i]]
  ELSE Append(data, [month |-> month, value |-> value])

NoMonthArgs == [startMonth |-> 0, endMonth |-> 0]

MonthsInit ==
  monthsCall \in [monthZone : MonthZones,
                  mpc : {"idle"},
                  monthArgs : {NoMonthArgs},
                  months : {<<>>},
                  nextMonth : {1},
                  budgetData : {<<>>},
                  monthReads : {<<>>}]

MonthsIdle == monthsCall = Unused

otherThanMonths == <<sessionVars, storeVars, historyVars, convertVars,
                     wrapperVars, invocationVars, contextToolVars,
                     transactionsVars, authVars>>

\* execute(args): ensureBudgetLoaded() is awaited
CallGetBudgetMonths(startMonth, endMonth) ==
  /\ mpc = "idle"
  /\ monthsCall' =
       [monthsCall EXCEPT
          !.mpc = "prepare",
          !.monthArgs = [startMonth |-> startMonth, endMonth |-> endMonth]]
  /\ UNCHANGED otherThanMonths

\* ensureBudgetLoaded, getCategoryGroups and getCategoryContextsFromGroups
\* settled: the month list is generated and the first month is read
MonthsPrepared(ok) ==
  /\ mpc = "prepare"
  /\ monthsCall' =
       IF ok
       THEN LET list == MonthList(monthZone, ParseMonth(monthArgs.startMonth),
                                  ParseMonth(monthArgs.endMonth))
            IN  [monthsCall EXCEPT
                   !.months = list,
                   !.mpc = IF list = <<>> THEN "done" ELSE "getBudgetMonth"]
       ELSE [monthsCall EXCEPT !.mpc = "failed"]
  /\ UNCHANGED otherThanMonths

\* getBudgetMonth(month) settled: the month's entry is its budget, or null
BudgetMonthSettled(ok) ==
  /\ mpc = "getBudgetMonth"
  /\ LET month == months[nextMonth]
     IN  monthsCall' =
           [monthsCall EXCEPT
              !.budgetData = Assign(budgetData, month,
                                    IF ok THEN <<BudgetOf(month)>> ELSE <<>>),
              !.monthReads = Append(monthReads, [month |-> month, ok |-> ok]),
              !.nextMonth = nextMonth + 1,
              !.mpc = IF nextMonth = Len(months) THEN "done"
                      ELSE "getBudgetMonth"]
  /\ UNCHANGED otherThanMonths

MonthsNext ==
  \/ \E startMonth \in 1..MaxMonth, endMonth \in 1..MaxMonth :
       CallGetBudgetMonths(startMonth, endMonth)
  \/ \E ok \in BOOLEAN : MonthsPrepared(ok)
  \/ \E ok \in BOOLEAN : BudgetMonthSettled(ok)

(***************************************************************************)
(* The tool layer: get_transactions.                                       *)
(***************************************************************************)
\* what getAccounts() returns, in its order
LedgerAccounts == <<"a1", "a2">>

\* args.accountId: absent, an account of the ledger, or an unknown id
AccountArgs == {Undefined, "a1", "a2", "zz"}

\* args.limit: <<>> when absent, else <<the number>>
LimitArgs == {<<>>} \cup {<<n>> : n \in 0..MaxTx}

\* what getTransactions(account.id, startDate, endDate) may resolve with
FetchedLists(account) ==
  UNION {[1..n -> [id : {account}, account : {account},
                   date : 0..MaxDay]] : n \in 0..MaxTx}

\* args.accountId ? accounts.filter((acc) => acc.id === args.accountId)
\*                : accounts
TargetAccounts(listing, accountId) ==
  IF Falsy(accountId) THEN listing
  ELSE SelectSeq(listing, LAMBDA acc : acc = accountId)

\* .flat()
RECURSIVE Flat(_)
Flat(lists) ==
  IF lists = <<>> THEN <<>> ELSE Head(lists) \o Flat(Tail(lists))

\* new Date(t.date).getTime()
GetTime(t) == ParseDate(t.date)

RECURSIVE SortByDateAscending(_)
SortByDateAscending(list) ==
  IF list = <<>> THEN <<>>
  ELSE LET sorted == SortByDateAscending(SubSeq(list, 1, Len(list) - 1))
           last == list[Len(list)]
           k == Cardinality({i \in 1..Len(sorted) :
                               GetTime(sorted[i]) <= GetTime(last)})
       IN  SubSeq(sorted, 1, k) \o <<last>>
             \o SubSeq(sorted, k + 1, Len(sorted))

\* .sort((a, b) => new Date(b.date).getTime() - new Date(a.date).getTime()):
\* later dates first, equal dates in the order they had
RECURSIVE SortByDateDescending(_)
SortByDateDescending(list) ==
  IF list = <<>> THEN <<>>
  ELSE LET sorted == SortByDateDescending(SubSeq(list, 1, Len(list) - 1))
           last == list[Len(list)]
           k == Cardinality({i \in 1..Len(sorted) :
                               GetTime(sorted[i]) >= GetTime(last)})
       IN  SubSeq(sorted, 1, k) \o <<last>>
             \o SubSeq(sorted, k + 1, Len(sorted))

\* args.limit ? accountTransactions.slice(0, args.limit) : accountTransactions
Requested(list, limit) ==
  IF limit = <<>> \/ limit = <<0>> THEN list
  ELSE SubSeq(list, 1, IF limit[1] < Len(list) THEN limit[1] ELSE Len(list))

\* accounts.filter(acc => relevantAccountIds.has(acc.id))
RelevantAccounts(listing, list) ==
  SelectSeq(listing,
            LAMBDA acc : \E i \in 1..Len(list) : list[i].account = acc)

NoTxArgs == [accountId |-> Undefined, limit |-> <<>>]

TransactionsIdle == transactionsCall = Unused

TransactionsInit ==
  transactionsCall = [gpc |-> "idle",
                      txArgs |-> NoTxArgs,
                      targetAccounts |-> <<>>,
                      pendingFetches |-> {},
                      fetched |-> <<>>,
                      requestedTransactions |-> <<>>,
                      relevantAccounts |-> <<>>,
                      fetchOrder |-> <<>>]

otherThanTransactions == <<sessionVars, storeVars, historyVars, convertVars,
                           wrapperVars, invocationVars, contextToolVars,
                           monthsVars, authVars>>

\* execute(args): ensureBudgetLoaded() is awaited
CallGetTransactions(accountId, limit) ==
  /\ gpc = "idle"
  /\ transactionsCall' =
       [transactionsCall EXCEPT
          !.gpc = "ensureBudgetLoaded",
          !.txArgs = [accountId |-> accountId, limit |-> limit]]
  /\ UNCHANGED otherThanTransactions

\* ensureBudgetLoaded() settled; getAccounts() is awaited
TransactionsBudgetLoaded(ok) ==
  /\ gpc = "ensureBudgetLoaded"
  /\ transactionsCall' =
       [transactionsCall EXCEPT
          !.gpc = IF ok THEN "getAccounts" ELSE "failed"]
  /\ UNCHANGED otherThanTransactions

\* getAccounts() resolved: one getTransactions per target account is
\* started and Promise.all of them is awaited
TargetsChosen ==
  /\ gpc = "getAccounts"
  /\ LET targets == TargetAccounts(LedgerAccounts, txArgs.accountId)
     IN  transactionsCall' =
           [transactionsCall EXCEPT
              !.targetAccounts = targets,
              !.pendingFetches = 1..Len(targets),
              !.fetched = [k \in 1..Len(targets) |-> <<>>],
              !.gpc = "getTransactions"]
  /\ UNCHANGED otherThanTransactions

\* the fetch of the k-th target account resolved, in whatever order: its
\* transactions take the k-th place of what Promise.all resolves with
FetchResolved(k, list) ==
  /\ gpc = "getTransactions"
  /\ k \in pendingFetches
  /\ list \in FetchedLists(targetAccounts[k])
  /\ transactionsCall' =
       [transactionsCall EXCEPT
          !.fetched[k] = list,
          !.pendingFetches = pendingFetches \ {k},
          !.fetchOrder = Append(fetchOrder, k)]
  /\ UNCHANGED otherThanTransactions

\* a fetch rejected: Promise.all rejects and execute throws
FetchRejected(k) ==
  /\ gpc = "getTransactions"
  /\ k \in pendingFetches
  /\ transactionsCall' = [transactionsCall EXCEPT !.gpc = "failed"]
  /\ UNCHANGED otherThanTransactions

\* Promise.all resolved: flat, sort and slice; getCategories() and
\* getPayees() are awaited
TransactionsSorted ==
  /\ gpc = "getTransactions"
  /\ pendingFetches = {}
  /\ transactionsCall' =
       [transactionsCall EXCEPT
          !.requestedTransactions =
             Requested(SortByDateDescending(Flat(fetched)), txArgs.limit),
          !.gpc = "getCategories"]
  /\ UNCHANGED otherThanTransactions

\* getCategories() and getPayees() settled: the response is built
LookupsSettled(ok) ==
  /\ gpc = "getCategories"
  /\ transactionsCall' =
       IF ok
       THEN [transactionsCall EXCEPT
               !.relevantAccounts =
                  RelevantAccounts(LedgerAccounts, requestedTransactions),
               !.gpc = "done"]
       ELSE [transactionsCall EXCEPT !.gpc = "failed"]
  /\ UNCHANGED otherThanTransactions

TransactionsNext ==
  \/ \E accountId \in AccountArgs, limit \in LimitArgs :
       CallGetTransactions(accountId, limit)
  \/ \E ok \in BOOLEAN : TransactionsBudgetLoaded(ok)
  \/ TargetsChosen
  \/ \E k, a \in 1..Len(LedgerAccounts) :
       \E list \in FetchedLists(LedgerAccounts[a]) : FetchResolved(k, list)
  \/ \E k \in 1..Len(LedgerAccounts) : FetchRejected(k)
  \/ TransactionsSorted
  \/ \E ok \in BOOLEAN : LookupsSettled(ok)

(***************************************************************************)
(* authenticate.                                                           *)
(***************************************************************************)
\* the pieces process.env.ALLOWED_EMAIL_ADDRESSES may hold between commas
EmailPieces == {"a@x", " a@x ", "b@x", " ", ""}

\* process.env.ALLOWED_EMAIL_ADDRESSES: unset, or its pieces
EnvAllowed ==
  {[set |-> FALSE, pieces |-> <<>>]} \cup
  {[set |-> TRUE, pieces |-> pieces] :
     pieces \in UNION {[1..n -> EmailPieces] : n \in 0..MaxEmails}}

\* email.trim()
Trim(email) ==
  IF email = " a@x " THEN "a@x" ELSE IF email = " " THEN "" ELSE email

\* new Set(env?.split(',').map(email => email.trim())
\*                        .filter(email => email.length > 0) || [])
AllowedEmails(env) ==
  IF ~env.set THEN {}
  ELSE {Trim(env.pieces[i]) : i \in 1..Len(env.pieces)} \ {""}

HasOrEmpty(allowed, email) == allowed = {} \/ email \in allowed

\* ALLOWED_EMAILS.has(email)
Has(allowed, email) == email \in allowed

\* what verifyWithPromise makes of a token: it throws, or resolves with the
\* payload
Tokens == [valid : BOOLEAN, email : {Undefined, "", "a@x", "c@x"}]

\* request.headers["authorization"]: absent, or a scheme and what follows
NoHeader == [present |-> FALSE, scheme |-> "", token |-> [valid |-> FALSE,
                                                          email |-> Undefined]]

Headers ==
  {NoHeader} \cup
  [present : {TRUE}, scheme : {"Bearer ", "bearer ", "Basic "},
   token : Tokens]

\* authHeader?.startsWith("Bearer ")
StartsWithBearer(header) == header.present /\ header.scheme = "Bearer "

NoOutcome == [kind |-> "none", status |-> 0]
Rejected(status) == [kind |-> "response", status |-> status]
Authenticated == [kind |-> "user", status |-> 0]

AuthIdle == authCall = Unused

AuthInit ==
  authCall \in [envAllowed : EnvAllowed,
                apc : {"idle"},
                authHeader : {NoHeader},
                outcome : {NoOutcome}]

otherThanAuth == <<sessionVars, storeVars, historyVars, convertVars,
                   wrapperVars, invocationVars, contextToolVars, monthsVars,
                   transactionsVars>>

\* authenticate(request): a header that is not a Bearer header is refused,
\* otherwise verifyWithPromise(token) is awaited
CallAuthenticate(header) ==
  /\ apc = "idle"
  /\ authCall' =
       IF ~StartsWithBearer(header)
       THEN [authCall EXCEPT !.authHeader = header,
                             !.apc = "done",
                             !.outcome = Rejected(401)]
       ELSE [authCall EXCEPT !.authHeader = header,
                             !.apc = "verify"]
  /\ UNCHANGED otherThanAuth

\* verifyWithPromise(token) settled: the email claim is checked
VerifySettled ==
  /\ apc = "verify"
  /\ authCall' =
       [authCall EXCEPT
          !.apc = "done",
          !.outcome =
             IF ~authHeader.token.valid THEN Rejected(401)
             ELSE IF Falsy(authHeader.token.email) THEN Rejected(400)
             ELSE IF ~Has(AllowedEmails(envAllowed), authHeader.token.email)
             THEN Rejected(403)
             ELSE Authenticated]
  /\ UNCHANGED otherThanAuth

AuthNext ==
  \/ \E header \in Headers : CallAuthenticate(header)
  \/ VerifySettled

\* no tool is being run
ToolIdle ==
  /\ ConvertIdle
  /\ WrapperIdle
  /\ InvocationIdle
  /\ ContextToolIdle
  /\ MonthsIdle
  /\ TransactionsIdle
  /\ AuthIdle

Init == SessionInit /\ StoreInit /\ HistoryIdle /\ ToolIdle

\* a stored collection, about to be searched
SearchInit ==
  /\ SessionInit
  /\ envBudgetId = Undefined
  /\ dataDirExists = FALSE
  /\ docs \in StoredCollections
  /\ uniqueIndex = FALSE
  /\ indexPc = "unique"
  /\ spc = [c \in Clients |-> "idle"]
  /\ req = [c \in Clients |-> NoRequest]
  /\ resp = [c \in Clients |-> NoResponse]
  /\ storeCalls = 0
  /\ clock = 0
  /\ lastSet = [key \in Keys |-> <<>>]
  /\ HistoryIdle
  /\ ToolIdle

SessionSpec == Init /\ [][SessionNext]_vars

\* the store on its own: the session stays as constructed
StoreOnlyInit == Init /\ envBudgetId = Undefined /\ dataDirExists = FALSE

StoreSpec == StoreOnlyInit /\ [][StoreNext]_vars

\* searches over a collection that is not being written
SearchSpec == SearchInit /\ [][SearchNext]_vars

\* one balance history request, in any time zone
HistoryOnlyInit ==
  /\ SessionInit
  /\ envBudgetId = Undefined
  /\ dataDirExists = FALSE
  /\ StoreInit
  /\ HistoryInit
  /\ ToolIdle

HistorySpec == HistoryOnlyInit /\ [][HistoryNext]_vars

\* everything but the tool layer, as constructed
ToolOnlyInit ==
  /\ SessionInit
  /\ envBudgetId = Undefined
  /\ dataDirExists = FALSE
  /\ StoreInit
  /\ HistoryIdle

\* one call of convertAmounts on any tree
ConvertOnlyInit ==
  /\ ToolOnlyInit
  /\ ConvertInit
  /\ WrapperIdle
  /\ InvocationIdle
  /\ ContextToolIdle
  /\ MonthsIdle
  /\ TransactionsIdle
  /\ AuthIdle

\* one call of a wrapped tool
WrapperOnlyInit ==
  /\ ToolOnlyInit
  /\ ConvertIdle
  /\ WrapperInit
  /\ InvocationIdle
  /\ ContextToolIdle
  /\ MonthsIdle
  /\ TransactionsIdle
  /\ AuthIdle

\* one invocation of a tool that writes annotations
ContextToolOnlyInit ==
  /\ ToolOnlyInit
  /\ ConvertIdle
  /\ WrapperIdle
  /\ InvocationIdle
  /\ ContextToolInit
  /\ MonthsIdle
  /\ TransactionsIdle
  /\ AuthIdle

ContextToolSpec == ContextToolOnlyInit /\ [][ContextToolNext]_vars

\* one invocation of get_budget_months, in any time zone
MonthsOnlyInit ==
  /\ ToolOnlyInit
  /\ ConvertIdle
  /\ WrapperIdle
  /\ InvocationIdle
  /\ ContextToolIdle
  /\ MonthsInit
  /\ TransactionsIdle
  /\ AuthIdle

MonthsSpec == MonthsOnlyInit /\ [][MonthsNext]_vars

\* one invocation of get_transactions
TransactionsOnlyInit ==
  /\ ToolOnlyInit
  /\ ConvertIdle
  /\ WrapperIdle
  /\ InvocationIdle
  /\ ContextToolIdle
  /\ MonthsIdle
  /\ TransactionsInit
  /\ AuthIdle

TransactionsSpec == TransactionsOnlyInit /\ [][TransactionsNext]_vars

\* one call of authenticate, under any configured allow-list
AuthOnlyInit ==
  /\ ToolOnlyInit
  /\ ConvertIdle
  /\ WrapperIdle
  /\ InvocationIdle
  /\ ContextToolIdle
  /\ MonthsIdle
  /\ TransactionsIdle
  /\ AuthInit

AuthSpec == AuthOnlyInit /\ [][AuthNext]_vars

\* tools invoked concurrently on an initialised connection
InvocationOnlyInit ==
  /\ isInitialized = TRUE
  /\ currentBudgetId = Null
  /\ envBudgetId = Undefined
  /\ dataDirExists = TRUE
  /\ pc = [p \in Procs |-> "idle"]
  /\ op = [p \in Procs |-> [kind |-> "none", arg |-> Undefined]]
  /\ calls = 0
  /\ result = [p \in Procs |-> NoResult]
  /\ loads = [p \in Procs |-> 0]
  /\ initCalls = 1
  /\ shutdownCalls = 0
  /\ okLoaded = {}
  /\ lastOutcome = [b \in Budgets |-> "none"]
  /\ raced = FALSE
  /\ StoreInit
  /\ HistoryIdle
  /\ ConvertIdle
  /\ WrapperIdle
  /\ InvocationInit
  /\ ContextToolIdle
  /\ MonthsIdle
  /\ TransactionsIdle
  /\ AuthIdle

InvocationSpec == InvocationOnlyInit /\ [][InvocationNext]_vars

WrapperSpec == WrapperOnlyInit /\ [][WrapperNext]_vars

ConvertSpec == ConvertOnlyInit /\ [][ConvertNext]_vars

(***************************************************************************)
(* Properties of the session.                                              *)
(***************************************************************************)
OkResult(id) == [kind |-> "ok", id |-> id]

\* caller p's call has ended (returned or thrown)
Ended(p) == pc[p] \in {"idle", "settled"} /\ result[p].kind # "none"

\* caller p takes the step of BudgetCheck
AtBudgetCheck(p) == pc[p] = "ebl_resume" /\ pc'[p] # "ebl_resume"

\* caller p's download settles in this step, the ledger reporting `how`
DownloadSettles(p, how) ==
  /\ pc[p] = "ebl_download"
  /\ pc'[p] # "ebl_download"
  /\ lastOutcome'[Target(p)] = how

\* neither an explicit budgetId nor a configured default
NoBudgetId(p) == op[p].arg \in {Undefined, EmptyStr} /\ envBudgetId \in {Undefined, EmptyStr}

\* C1: budget switches are serialized: at most one api.downloadBudget is in
\* flight at any time, and never two for the same target.
C1_DownloadsSerialized ==
  /\ Cardinality(InFlight) <= 1
  /\ \A p, q \in InFlight : Target(p) = Target(q) => p = q

\* C2: the cached currentBudgetId is null or the id of a budget whose
\* download completed successfully; while callers with different targets
\* interleave (no two downloads of one target overlap) it is never an id
\* whose load is still in flight or whose latest load failed.
C2_CacheHoldsOnlyLoadedBudgets ==
  /\ currentBudgetId \in Budgets \cup {Null}
  /\ currentBudgetId # Null =>
       /\ currentBudgetId \in okLoaded
       /\ ~raced =>
            /\ lastOutcome[currentBudgetId] = "ok"
            /\ \A p \in InFlight : Target(p) # currentBudgetId

\* C2 witness: b1 is cached while another caller's download of b2 is in
\* flight after an earlier download of b2 failed.
C2_Witness ==
  /\ currentBudgetId = "b1"
  /\ ~raced
  /\ lastOutcome["b2"] = "failed"
  /\ \E p \in InFlight : Target(p) = "b2"

\* C3: a call that finds its target equal to the cached id returns that id
\* without invoking api.downloadBudget and without touching the session; no
\* call invokes the download more than once.
C3_CachedTargetSkipsDownload ==
  /\ [](\A p \in Procs : loads[p] <= 1)
  /\ [][\A p \in Procs :
          (AtBudgetCheck(p) /\ ~Falsy(Target(p)) /\ Target(p) = currentBudgetId) =>
             /\ pc'[p] = "idle"
             /\ result'[p] = OkResult(Target(p))
             /\ loads'[p] = 0
             /\ InFlight' = InFlight
             /\ currentBudgetId' = currentBudgetId
             /\ isInitialized' = isInitialized]_vars

\* C3 witness: two calls for b1 have returned b1, one having downloaded it
\* and the other having found it cached.
C3_Witness ==
  \E p, q \in Procs :
    /\ p # q
    /\ Ended(p) /\ Ended(q)
    /\ op[p].kind = "ensureBudgetLoaded" /\ op[q].kind = "ensureBudgetLoaded"
    /\ result[p] = OkResult("b1") /\ result[q] = OkResult("b1")
    /\ loads[p] = 1 /\ loads[q] = 0
    /\ ~raced

\* C4: a call that finds its target different from the cached id invokes
\* api.downloadBudget exactly once, for that target; when that download
\* succeeds the cache becomes the target and the call returns the target.
C4_NewTargetLoadsOnce ==
  [][\A p \in Procs :
       /\ (AtBudgetCheck(p) /\ ~Falsy(Target(p)) /\ Target(p) # currentBudgetId) =>
            /\ pc'[p] = "ebl_download"
            /\ loads'[p] = 1
            /\ InFlight' = InFlight \cup {p}
            /\ currentBudgetId' = currentBudgetId
       /\ DownloadSettles(p, "ok") =>
            /\ currentBudgetId' = Target(p)
            /\ pc'[p] = "idle"
            /\ result'[p] = OkResult(Target(p))
            /\ loads'[p] = 1]_vars

\* C4 witness: a call has loaded and returned b2 while another caller's
\* download of b1 is still in flight.
C4_Witness ==
  \E p, q \in Procs :
    /\ Ended(p) /\ op[p].kind = "ensureBudgetLoaded"
    /\ result[p] = OkResult("b2") /\ loads[p] = 1
    /\ currentBudgetId = "b2"
    /\ Downloading(q) /\ Target(q) = "b1"

\* C5: when the download fails the call raises an error naming the attempted
\* id, leaves the session as it was, and attempts no further download; a
\* later call for an id whose load failed invokes the download again.
C5_FailedLoadKeepsCache ==
  [][\A p \in Procs :
       /\ DownloadSettles(p, "failed") =>
            /\ pc'[p] = "idle"
            /\ result'[p] = [kind |-> "LoadError", id |-> Target(p)]
            /\ currentBudgetId' = currentBudgetId
            /\ isInitialized' = isInitialized
            /\ loads'[p] = 1
            /\ InFlight' = InFlight \ {p}
       /\ (AtBudgetCheck(p) /\ ~Falsy(Target(p)) /\ Target(p) # currentBudgetId
             /\ lastOutcome[Target(p)] = "failed") =>
            /\ pc'[p] = "ebl_download"
            /\ loads'[p] = 1]_vars

\* C5 witness: a download of b2 failed with b1 cached, b1 is still cached,
\* and a later call is downloading b2 again.
C5_Witness ==
  \E p, q \in Procs :
    /\ Ended(p) /\ result[p] = [kind |-> "LoadError", id |-> "b2"]
    /\ currentBudgetId = "b1"
    /\ lastOutcome["b2"] = "failed"
    /\ Downloading(q) /\ Target(q) = "b2"
    /\ ~raced

\* C6 as claimed: with neither an explicit budgetId nor a configured default,
\* ensureBudgetLoaded fails with the configuration error and has issued no
\* download.
C6_AlwaysConfigError ==
  \A p \in Procs :
    (Ended(p) /\ op[p].kind = "ensureBudgetLoaded" /\ NoBudgetId(p)) =>
       /\ result[p].kind = "ConfigError"
       /\ loads[p] = 0

\* C6 amended: with neither an explicit budgetId nor a configured default,
\* ensureBudgetLoaded fails, never invokes the download and never writes the
\* cache; it fails with the configuration error once ensureConnection has
\* returned, and with ensureConnection's own error when that fails first.
C6_ConfigErrorAfterConnection ==
  /\ [](\A p \in Procs :
          (op[p].kind = "ensureBudgetLoaded" /\ NoBudgetId(p)) =>
             /\ loads[p] = 0
             /\ ~Downloading(p)
             /\ Ended(p) => result[p].kind \in {"ConfigError", "InitError", "FsError"})
  /\ [][\A p \in Procs :
          (pc'[p] # pc[p] /\ op'[p].kind = "ensureBudgetLoaded"
             /\ op'[p].arg \in {Undefined, EmptyStr}
             /\ envBudgetId \in {Undefined, EmptyStr}) =>
             /\ currentBudgetId' = currentBudgetId
             /\ InFlight' = InFlight
             /\ AtBudgetCheck(p) =>
                  (pc'[p] = "idle" /\ result'[p].kind = "ConfigError")]_vars

\* C6 witness: a call without any budget id has failed with the
\* configuration error while b1 is cached.
C6_Witness ==
  \E p \in Procs :
    /\ Ended(p) /\ op[p].kind = "ensureBudgetLoaded" /\ NoBudgetId(p)
    /\ result[p].kind = "ConfigError"
    /\ currentBudgetId = "b1"

\* C7: between construction (or the last shutdown) and the next shutdown
\* api.init is invoked at most once (an invocation that failed not counted).
C7_InitAtMostOnce == initCalls <= 1

\* C8: a shutdown that returns has reset the session to isInitialized = false
\* and currentBudgetId = null; a shutdown issued when the session is
\* uninitialized invokes no api.shutdown and leaves the session unchanged.
C8_ShutdownResetsAndIsIdempotent ==
  [][/\ ~isInitialized => shutdownCalls' = shutdownCalls
     /\ \A p \in Procs :
          /\ (pc[p] = "sd_wait" /\ pc'[p] = "idle" /\ result'[p].kind = "ok") =>
               (isInitialized' = FALSE /\ currentBudgetId' = Null)
          /\ (pc[p] = "idle" /\ pc'[p] # "idle" /\ op'[p].kind = "shutdown"
                /\ ~isInitialized) =>
               /\ pc'[p] = "settled"
               /\ result'[p].kind = "noop"
               /\ isInitialized' = isInitialized
               /\ currentBudgetId' = currentBudgetId]_vars

\* C8 witness: after a budget was loaded, one shutdown has reset the session
\* and a second one, issued afterwards, was a no-op.
C8_Witness ==
  \E p, q \in Procs :
    /\ op[p].kind = "shutdown" /\ Ended(p) /\ result[p].kind = "ok"
    /\ op[q].kind = "shutdown" /\ Ended(q) /\ result[q].kind = "noop"
    /\ okLoaded # {}
    /\ shutdownCalls = 1
    /\ ~isInitialized /\ currentBudgetId = Null

\* C9: the session is Uninitialized, Connected(no budget) or
\* Connected(budget = X): isInitialized = false implies currentBudgetId = null.
C9_UninitializedHasNoBudget == ~isInitialized => currentBudgetId = Null

(***************************************************************************)
(* Properties of the annotation store.                                     *)
(***************************************************************************)
\* C10: in every reachable state of the annotation store there is at most
\* one record per (entityType, entityId, budgetId).
C10_OneRecordPerKey == ~HasDuplicates(docs)

\* the documents of the other keys, in natural order
OtherKeys(coll, key) ==
  LET Other(doc) == KeyOf(doc) # key IN SelectSeq(coll, Other)

\* client c's request of this kind is answered in this step
Answered(c, kind) == req[c].kind = kind /\ spc[c] # "idle" /\ spc'[c] = "idle"

\* C11: for every key, a getContext that follows one or more setContext
\* calls on that key, with no clearContext in between, returns a record
\* whose context is exactly the data of the most recent setContext (the
\* earlier data is replaced, not merged), and a setContext leaves the
\* records under the other keys as they were.
C11_LastWriteWins ==
  [][\A c \in Clients :
       /\ (Answered(c, "getContext") /\ lastSet[req[c].key] # <<>>)
            => /\ resp'[c].kind = "doc"
               /\ KeyOf(resp'[c].doc) = req[c].key
               /\ resp'[c].doc.context = lastSet[req[c].key][1]
       /\ (Answered(c, "setContext") /\ resp'[c].kind = "doc")
            => /\ lastSet'[req[c].key] = <<req[c].context>>
               /\ OtherKeys(docs', req[c].key) = OtherKeys(docs, req[c].key)]_vars

\* C12: the first setContext on a key produces a record with createdAt equal
\* to updatedAt; every later setContext on the key (no clearContext in
\* between) leaves createdAt at its original value and sets updatedAt to the
\* time of that later call, which is not earlier than the previous updatedAt.
C12_TimestampsAdvance ==
  [][\A c \in Clients :
       (Answered(c, "setContext") /\ resp'[c].kind = "doc") =>
         /\ resp'[c].doc.updatedAt = req[c].now
         /\ IF Len(docs') = Len(docs) + 1
              THEN resp'[c].doc.createdAt = resp'[c].doc.updatedAt
              ELSE \A i \in 1..Len(docs) :
                     /\ docs'[i].createdAt = docs[i].createdAt
                     /\ docs'[i].updatedAt >= docs[i].updatedAt]_vars

\* C13: clearContext on a key that has a record removes exactly that record
\* and returns true; on a key with no record (never set, or already cleared)
\* it returns false and leaves the store unchanged; so once it has returned
\* true the key has no record, and repeated calls return true exactly once.
C13_ClearRemovesTheRecord ==
  [][\A c \in Clients :
       Answered(c, "clearContext") =>
         IF Matching(docs, req[c].key) # {}
           THEN /\ resp'[c] = [kind |-> "deleted", doc |-> TRUE]
                /\ Len(docs') = Len(docs) - 1
                /\ OtherKeys(docs', req[c].key) = OtherKeys(docs, req[c].key)
                /\ Matching(docs', req[c].key) = {}
           ELSE /\ resp'[c] = [kind |-> "deleted", doc |-> FALSE]
                /\ docs' = docs]_vars

\* the documents of one budget, in natural order
WithBudget(coll, budgetId) ==
  LET Of(doc) == doc.budgetId = budgetId IN SelectSeq(coll, Of)

\* C14: searchContext({budgetId: B}) returns exactly the stored records
\* whose budgetId is B, whatever their entity type, and no record of any
\* other budget.
C14_SearchByBudget ==
  \A c \in Clients, B \in Budgets :
    (resp[c].kind = "docs" /\ req[c].query = [budgetId |-> B])
      => resp[c].doc = WithBudget(docs, B)

\* a search by budget b1 has returned the category record of b1 and left
\* out the account record of b2
C14_Witness ==
  \E c \in Clients :
    /\ resp[c].kind = "docs"
    /\ req[c].query = [budgetId |-> "b1"]
    /\ Len(docs) = 2
    /\ \E i \in 1..2 : docs[i].budgetId = "b2" /\ docs[i].entityType = "account"
    /\ Len(resp[c].doc) = 1
    /\ resp[c].doc[1].entityType = "category"

\* the record meets every field the query supplies
Satisfies(doc, query) ==
  \A f \in DOMAIN query :
    IF f \in ReservedFields
      THEN doc[f] = query[f]
      ELSE f \in DOMAIN doc.context /\ doc.context[f] = query[f]

\* the records of the collection that meet every field the query supplies
Satisfying(coll, query) ==
  LET Sat(doc) == Satisfies(doc, query) IN SelectSeq(coll, Sat)

\* C15 as stated: searchContext(query) returns exactly the records that
\* satisfy every supplied structured filter (entityType, entityId, budgetId)
\* and every extra (fieldName, value) equality predicate on the record's
\* context fields, and an empty sequence when no record matches.
C15_SearchAppliesEveryFilter ==
  \A c \in Clients :
    resp[c].kind = "docs" => resp[c].doc = Satisfying(docs, req[c].query)

\* the query without the structured filters whose value is the empty string
NonEmptyFilters(query) ==
  LET kept == {f \in DOMAIN query :
                 f \in ReservedFields => query[f] # EmptyStr}
  IN  [f \in kept |-> query[f]]

\* C15: searchContext(query) returns exactly the records that satisfy every
\* supplied structured filter whose value is not the empty string (an empty
\* filter is treated as absent) and every extra (fieldName, value) equality
\* predicate on the record's context fields, and an empty sequence when no
\* record matches.
C15_SearchAppliesNonEmptyFilters ==
  \A c \in Clients :
    resp[c].kind = "docs"
      => resp[c].doc = Satisfying(docs, NonEmptyFilters(req[c].query))

\* a search with all three filters and an extra predicate has returned one
\* of two records
C15_Witness ==
  \E c \in Clients :
    /\ resp[c].kind = "docs"
    /\ req[c].query = [entityType |-> "account", entityId |-> "e1",
                       budgetId |-> "b1", tag |-> "x"]
    /\ Len(docs) = 2
    /\ Len(resp[c].doc) = 1

\* C16: when setContext calls race to insert the first record of a key,
\* every call completes without a duplicate-key error reaching its caller,
\* exactly one record for the key exists afterwards, and its context is the
\* data of one of the racing calls (as each call returns, that of the call).
C16_RacingInsertsConverge ==
  [][\A c \in Clients :
       Answered(c, "setContext") =>
         LET m == Matching(docs', req[c].key) IN
           /\ resp'[c].kind = "doc"
           /\ Cardinality(m) = 1
           /\ \A i \in m : docs'[i].context = req[c].context]_vars

(***************************************************************************)
(* Properties of get_account_balance_history.                              *)
(***************************************************************************)
\* getAccounts() has answered
AccountsListed ==
  /\ hpc \notin {"idle", "ensureBudgetLoaded", "getAccounts"}
  /\ error # "BudgetNotLoaded"

\* C17: get_account_balance_history fails with an account-not-found error
\* when the requested accountId is not among the accounts the ledger lists,
\* and does so before any balance read (seed or per-day) and any transaction
\* fetch is issued.
C17_UnknownAccountFailsFirst ==
  /\ ~AccountsListed => balanceReads = <<>> /\ transactionFetches = <<>>
  /\ (AccountsListed /\ args.accountId \notin accounts)
       => /\ hpc = "failed"
          /\ error = "AccountNotFound"
          /\ balanceReads = <<>>
          /\ transactionFetches = <<>>
          /\ history = <<>>

\* the request named an account the ledger's non-empty listing lacks, and
\* has failed
C17_Witness ==
  /\ args.accountId = "zz"
  /\ accounts = {"a1"}
  /\ hpc = "failed"
  /\ error = "AccountNotFound"

\* the days d with startDate <= d < endDate, ascending
ExpectedDays ==
  [i \in 1..(IF args.endDate > args.startDate
               THEN args.endDate - args.startDate ELSE 0)
     |-> args.startDate + i - 1]

\* C18: the balance history has exactly one point for each calendar day d
\* with startDate <= d < endDate, in strictly ascending date order, and no
\* point for endDate or a day outside the range (so it is empty when
\* startDate is endDate or later), once the per-day loop has ended.
C18_OnePointPerDay ==
  /\ \A i, j \in 1..Len(history) : i < j => history[i].date < history[j].date
  /\ \A i \in 1..Len(history) :
       args.startDate <= history[i].date /\ history[i].date < args.endDate
  /\ hpc \in {"getContext", "done"}
       => [i \in 1..Len(history) |-> history[i].date] = ExpectedDays

RECURSIVE SumOfCredits(_, _)
\* the sum of the strictly positive amounts of the transactions dated `day`
SumOfCredits(transactions, day) ==
  IF transactions = <<>> THEN 0
  ELSE (IF Head(transactions).date = day /\ Head(transactions).amount > 0
          THEN Head(transactions).amount ELSE 0)
       + SumOfCredits(Tail(transactions), day)

\* C19: for every emitted day d, endOfDayBalance is the balance the ledger
\* reported for d and theoreticalPeakIntradayBalance is dayBeforeBalance plus
\* the sum of that day's strictly positive transaction amounts (both as
\* decimals of major units), where dayBeforeBalance is the ledger balance as
\* of the day before startDate for the first day and the previous emitted
\* day's endOfDayBalance for every later day.
C19_PointsFollowTheLedger ==
  /\ balanceReads # <<>>
       => ToISODate(balanceReads[1].cutoff) = args.startDate - 1
  /\ Len(balanceReads) = Len(history) + (IF hpc \in {"idle", "ensureBudgetLoaded", "getAccounts", "seedBalance", "failed"} THEN 0 ELSE 1)
  /\ \A i \in 1..Len(history) :
       /\ ToISODate(balanceReads[i + 1].cutoff) = history[i].date
       /\ history[i].endOfDayBalance = IntegerToAmount(balanceReads[i + 1].balance)
       /\ history[i].theoreticalPeakIntradayBalance =
            IntegerToAmount(balanceReads[i].balance
                            + SumOfCredits(groupedTransactions, history[i].date))
       /\ i > 1 => IntegerToAmount(balanceReads[i].balance)
                     = history[i - 1].endOfDayBalance

\* the second day of a history: day-before balance 100, a credit of 50 and a
\* debit of 70, end-of-day balance 80
C19_Witness ==
  /\ Len(history) >= 2
  /\ balanceReads[2].balance = 100
  /\ balanceReads[3].balance = 80
  /\ \E k, l \in 1..Len(groupedTransactions) :
       /\ groupedTransactions[k] = [date |-> history[2].date, amount |-> 50]
       /\ groupedTransactions[l] = [date |-> history[2].date, amount |-> -70]
  /\ history[2].endOfDayBalance = [whole |-> 0, hundredths |-> 80]
  /\ history[2].theoreticalPeakIntradayBalance = [whole |-> 1, hundredths |-> 50]

\* decimal a is at most decimal b
AmountLeq(a, b) ==
  a.whole < b.whole \/ (a.whole = b.whole /\ a.hundredths <= b.hundredths)

\* C20: on a day whose transactions all have amounts less than or equal to
\* zero, or that has no transactions, theoreticalPeakIntradayBalance equals
\* dayBeforeBalance; on every day it is greater than or equal to
\* dayBeforeBalance.
C20_PeakNotBelowDayBefore ==
  \A i \in 1..Len(history) :
    LET before == IntegerToAmount(balanceReads[i].balance)
        onDay  == {k \in 1..Len(groupedTransactions) :
                     groupedTransactions[k].date = history[i].date}
    IN  /\ AmountLeq(before, history[i].theoreticalPeakIntradayBalance)
        /\ (\A k \in onDay : groupedTransactions[k].amount <= 0)
             => history[i].theoreticalPeakIntradayBalance = before

\* a day with a debit and no credit, closing below the day before: the peak
\* is the day-before balance
C20_Witness ==
  \E i \in 1..Len(history) :
    /\ balanceReads[i].balance = 100
    /\ balanceReads[i + 1].balance = 80
    /\ \E k \in 1..Len(groupedTransactions) :
         groupedTransactions[k] = [date |-> history[i].date, amount |-> -70]
    /\ \A k \in 1..Len(groupedTransactions) :
         groupedTransactions[k].date = history[i].date
           => groupedTransactions[k].amount <= 0
    /\ history[i].theoreticalPeakIntradayBalance = [whole |-> 1, hundredths |-> 0]

RECURSIVE SumOfAmounts(_, _)
\* the sum of the amounts of the transactions at the positions S
SumOfAmounts(transactions, S) ==
  IF S = {} THEN 0
  ELSE LET k == CHOOSE x \in S : TRUE
       IN  transactions[k].amount + SumOfAmounts(transactions, S \ {k})

\* the positions of the transactions dated `day`
PositionsOn(transactions, day) ==
  {k \in 1..Len(transactions) : transactions[k].date = day}

\* the ledger's balance for the i-th emitted day is the balance before it
\* plus the day's transaction amounts
LedgerAddsUp(i) ==
  balanceReads[i + 1].balance
    = balanceReads[i].balance
      + SumOfAmounts(groupedTransactions,
                     PositionsOn(groupedTransactions, history[i].date))

\* C21: the theoretical peak is a conservative upper bound: on a day whose
\* ledger-reported end-of-day balance is the previous close plus the sum of
\* the day's transaction amounts, every running intraday balance (the
\* previous close plus the transactions applied so far, in any order: any
\* subset of the day's transactions is a prefix of some ordering) and the
\* end-of-day balance are at most theoreticalPeakIntradayBalance.
C21_PeakIsUpperBound ==
  \A i \in 1..Len(history) :
    LedgerAddsUp(i) =>
      /\ AmountLeq(history[i].endOfDayBalance,
                   history[i].theoreticalPeakIntradayBalance)
      /\ \A S \in SUBSET PositionsOn(groupedTransactions, history[i].date) :
           AmountLeq(IntegerToAmount(balanceReads[i].balance
                                     + SumOfAmounts(groupedTransactions, S)),
                     history[i].theoreticalPeakIntradayBalance)

\* a day that adds up, with a credit and a debit: the running balance after
\* the credit alone is the peak, above both closes
C21_Witness ==
  \E i \in 1..Len(history) :
    /\ LedgerAddsUp(i)
    /\ balanceReads[i].balance = 100
    /\ balanceReads[i + 1].balance = 80
    /\ \E k \in PositionsOn(groupedTransactions, history[i].date) :
         /\ groupedTransactions[k].amount = 50
         /\ IntegerToAmount(100 + 50) = history[i].theoreticalPeakIntradayBalance

\* C24: a get_account_balance_history request over a range of n days issues
\* exactly one transaction fetch covering the whole range, one seed balance
\* read for the day before startDate, and exactly n per-day balance reads,
\* one per day in ascending order, however many transactions fall on a day.
C24_ReadsPerRequest ==
  /\ Len(transactionFetches) <= 1
  /\ hpc \in {"getContext", "done"} =>
       /\ transactionFetches = <<[startDate |-> ParseDate(args.startDate),
                                  endDate |-> ParseDate(args.endDate)]>>
       /\ [i \in 1..Len(balanceReads) |-> ToISODate(balanceReads[i].cutoff)]
            = [i \in 1..(Len(ExpectedDays) + 1) |-> args.startDate + i - 2]

(***************************************************************************)
(* Properties of convertAmounts.                                           *)
(***************************************************************************)
ClaimedKeys == {"amount", "balance", "budgeted", "spent"}

Step(key, index) == [key |-> key, index |-> index]

\* what a node is, apart from what it holds
Outline(o) ==
  IF o.type = "array" THEN [type |-> "array", length |-> Len(o.items)]
  ELSE IF o.type = "object" THEN [type |-> "object", keys |-> DOMAIN o.entries]
  ELSE o

\* every node of a tree with the path leading to it
RECURSIVE Nodes(_, _)
Nodes(o, path) ==
  {[path |-> path, node |-> Outline(o)]} \cup
    IF o.type = "array"
    THEN UNION {Nodes(o.items[i], Append(path, Step("", i))) :
                  i \in DOMAIN o.items}
    ELSE IF o.type = "object"
    THEN UNION {Nodes(o.entries[key], Append(path, Step(key, 0))) :
                  key \in DOMAIN o.entries}
    ELSE {}

\* a is b / 100
HundredthOf(a, b) ==
  a.type = "number" /\ b.type = "number" /\ a.n * b.d * 100 = b.n * a.d

\* the node is a number held under one of the four keys
HeldUnderClaimedKey(e) ==
  /\ e.node.type = "number"
  /\ Len(e.path) > 0
  /\ e.path[Len(e.path)].key \in ClaimedKeys

\* no value enclosing the node is itself held under one of the four keys
NotBelowClaimedKey(e) ==
  \A i \in 1..(Len(e.path) - 1) : e.path[i].key \notin ClaimedKeys

SamePaths ==
  {e.path : e \in Nodes(converted, <<>>)} = {e.path : e \in Nodes(obj, <<>>)}

\* C22 as stated: convertAmounts returns a tree of the same shape in which
\* every number held under amount, balance, budgeted or spent, at any depth,
\* is the input's divided by 100 and every other value is the input's.
C22_EveryAmountConverted ==
  converted # NotConverted =>
    /\ SamePaths
    /\ \A e \in Nodes(obj, <<>>) : \E f \in Nodes(converted, <<>>) :
         /\ f.path = e.path
         /\ IF HeldUnderClaimedKey(e)
            THEN HundredthOf(f.node, e.node)
            ELSE f.node = e.node

\* C22: convertAmounts returns a tree of the same shape in which every
\* number held under amount, balance, budgeted or spent is the input's
\* divided by 100, unless a value enclosing it is itself held under one of
\* those keys; every other value, and everything inside a value held under
\* one of those keys, is the input's.
C22_AmountsConvertedOutsideAmounts ==
  converted # NotConverted =>
    /\ SamePaths
    /\ \A e \in Nodes(obj, <<>>) : \E f \in Nodes(converted, <<>>) :
         /\ f.path = e.path
         /\ IF HeldUnderClaimedKey(e) /\ NotBelowClaimedKey(e)
            THEN HundredthOf(f.node, e.node)
            ELSE f.node = e.node

\* a budgeted amount inside an item was converted, and the name beside it
\* was kept
C22_Witness ==
  /\ obj = ObjectValue("items" :>
             ObjectValue(("budgeted" :> NumberValue(1250, 1))
                           @@ ("name" :> StringValue("x"))))
  /\ converted = ObjectValue("items" :>
             ObjectValue(("budgeted" :> NumberValue(1250, 100))
                           @@ ("name" :> StringValue("x"))))

(***************************************************************************)
(* Properties of withErrorHandling.                                        *)
(***************************************************************************)
\* the text of the payload the wrapper returned, read back
ReportOf(payload) == payload.entries["content"].items[1].entries["text"]

IsReport(payload) ==
  /\ payload.type = "object"
  /\ DOMAIN payload.entries = {"content"}
  /\ payload.entries["content"].type = "array"
  /\ Len(payload.entries["content"].items) = 1
  /\ payload.entries["content"].items[1].entries["type"] = StringValue("text")
  /\ ReportOf(payload).type = "object"

\* the message a thrown value carries: an Error's message, a string itself
Carries(thrown, message) ==
  /\ thrown.type = "Error" => message = StringValue(thrown.message)
  /\ thrown.type = "string" => message = thrown

C25_ReadsServedByOwnBudget ==
  \A p \in Procs :
    /\ \A i \in 1..Len(ledgerReads[p]) : ledgerReads[p][i] = loadedBudgetId[p]
    /\ annotated[p] # Null =>
         \A i \in 1..Len(ledgerReads[p]) : ledgerReads[p][i] = annotated[p]

(***************************************************************************)
(* Properties of the tools that write annotations.                         *)
(***************************************************************************)
\* the record getContext(entityType, entityId, budgetId) finds
RecordUnder(entityType, entityId, budgetId) ==
  annotations[[entityType |-> entityType, entityId |-> entityId,
               budgetId |-> budgetId]]

\* C26: after set_category_contexts succeeds, for every entry {categoryId,
\* context} of its input, getContext('category', categoryId, loadedBudgetId)
\* returns a record whose context is that entry's context.
C26_CategoryContextStored ==
  xpc = "done" /\ xtool = "set_category_contexts" =>
    \A k \in 1..Len(contexts) :
      RecordUnder("category", contexts[k].id, writeBudgetId)
        = <<contexts[k].context>>

\* C27: once the ledger's listing is known, a request naming an id that is
\* not in it has failed with a not-found error, and the annotation store is
\* as it was when the tool was invoked: nothing was created or updated, the
\* listed ids of the request included.
C27_NotFoundLeavesStoreUnchanged ==
  \A listing \in Listings :
    /\ existingEntities = <<listing>>
    /\ \E k \in 1..Len(contexts) : contexts[k].id \notin listing
    => /\ xpc = "failed"
       /\ xerror = "NotFound"
       /\ annotations = annotationsBefore

\* a request with a listed and an unlisted category was refused, over a
\* store that held a record
C27_Witness ==
  /\ xerror = "NotFound"
  /\ xtool = "set_category_contexts"
  /\ Len(contexts) = 2
  /\ contexts[1].id = "e1"
  /\ contexts[2].id = "zz"
  /\ annotations[[entityType |-> "category", entityId |-> "e1",
                  budgetId |-> "b1"]] = <<[tag |-> "old"]>>

(***************************************************************************)
(* Properties of get_budget_months.                                        *)
(***************************************************************************)
\* the months from startMonth to endMonth, ascending
RequestedMonths ==
  [i \in 1..(IF monthArgs.endMonth < monthArgs.startMonth THEN 0
             ELSE monthArgs.endMonth - monthArgs.startMonth + 1) |->
     monthArgs.startMonth + i - 1]

\* C28: get_budget_months reports one entry for every month from startMonth
\* to endMonth inclusive, in ascending order, none when startMonth is after
\* endMonth; the entry of a month whose read failed is null, and the entries
\* of the other months are their budgets.
C28_OneEntryPerMonth ==
  mpc = "done" =>
    /\ [i \in 1..Len(budgetData) |-> budgetData[i].month] = RequestedMonths
    /\ Len(monthReads) = Len(budgetData)
    /\ \A i \in 1..Len(budgetData) :
         /\ monthReads[i].month = budgetData[i].month
         /\ monthReads[i].ok => budgetData[i].value # <<>>
         /\ ~monthReads[i].ok => budgetData[i].value = <<>>

(***************************************************************************)
(* Properties of get_transactions.                                         *)
(***************************************************************************)
\* the transactions the targeted accounts hold: target and position
FullResult ==
  {ki \in (1..Len(fetched)) \X (1..MaxTx) : ki[2] <= Len(fetched[ki[1]])}

\* how many times the full result, and the response, hold a transaction
TimesFetched(t) ==
  Cardinality({ki \in FullResult : fetched[ki[1]][ki[2]] = t})

TimesReturned(t) ==
  Cardinality({i \in 1..Len(requestedTransactions) :
                 requestedTransactions[i] = t})

PositiveLimit == txArgs.limit # <<>> /\ txArgs.limit # <<0>>

\* C29: get_transactions returns the transactions of the targeted accounts
\* ordered by date descending whatever the order in which the fetches
\* complete; with a positive limit L it returns at most L of them, none
\* older than one it leaves out; relevantAccounts holds exactly the accounts
\* that own a returned transaction.
C29_MostRecentFirst ==
  gpc = "done" =>
    /\ \A i, j \in 1..Len(requestedTransactions) :
         i < j => requestedTransactions[i].date >= requestedTransactions[j].date
    /\ \A i \in 1..Len(requestedTransactions) :
         TimesReturned(requestedTransactions[i])
           <= TimesFetched(requestedTransactions[i])
    /\ \A ki \in FullResult :
         TimesReturned(fetched[ki[1]][ki[2]])
           < TimesFetched(fetched[ki[1]][ki[2]])
         => /\ PositiveLimit
            /\ Len(requestedTransactions) = txArgs.limit[1]
            /\ \A i \in 1..Len(requestedTransactions) :
                 requestedTransactions[i].date >= fetched[ki[1]][ki[2]].date
    /\ PositiveLimit => Len(requestedTransactions) <= txArgs.limit[1]
    /\ {relevantAccounts[i] : i \in 1..Len(relevantAccounts)}
         = {LedgerAccounts[a] : a \in
              {b \in 1..Len(LedgerAccounts) :
                 \E i \in 1..Len(requestedTransactions) :
                   requestedTransactions[i].account = LedgerAccounts[b]}}

\* the second account's fetch completed first, its transaction is the most
\* recent, and a limit of one kept it alone
C29_Witness ==
  /\ gpc = "done"
  /\ fetchOrder = <<2, 1>>
  /\ txArgs = [accountId |-> Undefined, limit |-> <<1>>]
  /\ Len(fetched) = 2
  /\ Len(fetched[1]) = 1
  /\ Len(fetched[2]) = 1
  /\ fetched[1][1].date < fetched[2][1].date
  /\ requestedTransactions = fetched[2]
  /\ relevantAccounts = <<"a2">>

(***************************************************************************)
(* Properties of authenticate.                                             *)
(***************************************************************************)
\* the email is one of the configured addresses
Configured(email) ==
  /\ envAllowed.set
  /\ email # ""
  /\ \E i \in 1..Len(envAllowed.pieces) : Trim(envAllowed.pieces[i]) = email

BearerPresented == authHeader.present /\ authHeader.scheme = "Bearer "

EmailClaimed == authHeader.token.email \notin {Undefined, ""}

\* C30: authenticate returns successfully only for a Bearer token that
\* passes verification and whose email claim is in the configured
\* allow-list; a missing or non-Bearer header and a token failing
\* verification are rejected with 401, a verified token without an email
\* claim with 400, and a verified token whose email is not allow-listed
\* with 403, so that an empty allow-list admits no one.
C30_OnlyAllowListedEmails ==
  apc = "done" =>
    /\ outcome.kind \in {"user", "response"}
    /\ outcome.kind = "user" <=>
         /\ BearerPresented
         /\ authHeader.token.valid
         /\ Configured(authHeader.token.email)
    /\ ~BearerPresented => outcome = Rejected(401)
    /\ BearerPresented /\ ~authHeader.token.valid => outcome = Rejected(401)
    /\ BearerPresented /\ authHeader.token.valid /\ ~EmailClaimed
         => outcome = Rejected(400)
    /\ /\ BearerPresented
       /\ authHeader.token.valid
       /\ EmailClaimed
       /\ ~Configured(authHeader.token.email)
       => outcome = Rejected(403)
    /\ (~envAllowed.set \/ envAllowed.pieces = <<>>) => outcome.kind # "user"

\* a verified token with an email was refused because no address is
\* configured
C30_Witness ==
  /\ apc = "done"
  /\ envAllowed = [set |-> TRUE, pieces |-> <<"">>]
  /\ authHeader.scheme = "Bearer "
  /\ authHeader.token = [valid |-> TRUE, email |-> "a@x"]
  /\ outcome = Rejected(403)

====
